---- MODULE Spec2Model ----
(***************************************************************************)
(* Verification model of eco-parser: the Runtime (scope stack, closure     *)
(* stack), the tree-walking evaluator of the AST nodes, and the Bundler.   *)
(*                                                                         *)
(* Four specifications share the module.  SpecEval drives the Runtime and  *)
(* the evaluator (a host that owns one Runtime and evaluates statement     *)
(* nodes on it); SpecBundle / FairSpecBundle drive Bundler.bundle over a   *)
(* small module graph; SpecLex drives one Lexer over an input text;        *)
(* SpecParse parses a program text, emits its source and evaluates it.     *)
(***************************************************************************)
EXTENDS Integers, Sequences, FiniteSets, TLC

\* the Runtime and its host
VARIABLES scope, heap, stack, closures, global, last, ops
\* the Bundler and its host
VARIABLES fs, entry, context, files, tasks, status, bundled, truncated
\* a Lexer and its host
VARIABLES lexer, lexLast
\* the Parser and its host: a program text, its AST, the source emitted from
\* the AST, the AST of that source, and what the two ASTs evaluate to
VARIABLES program, parsed, emitted, reparsed, ran, reran

evalVars == <<scope, heap, stack, closures, global, last, ops>>
bundleVars == <<fs, entry, context, files, tasks, status, bundled, truncated>>
lexVars == <<lexer, lexLast>>
parseVars == <<program, parsed, emitted, reparsed, ran, reran>>
syntaxVars == <<lexVars, parseVars>>
vars == <<evalVars, bundleVars, syntaxVars>>

(***************************************************************************)
(* Bounds of the model.                                                    *)
(***************************************************************************)
\* number of host operations performed on one Runtime
MaxOps == 3
\* number of innermost bundleFile invocations kept of the await chain
MaxDepth == 5

(***************************************************************************)
(* Values.  A value is a pair <<tag, payload>>.  A ReturnValueException    *)
(* instance is a value too (JavaScript throws and catches it like any      *)
(* other object); its payload is the returned value.                       *)
(***************************************************************************)
Undef == <<"undef", 0>>
Num(n) == <<"num", n>>
\* a string value, by its text
Str(s) == <<"str", s>>
Fn(id) == <<"fn", id>>
\* a host-raised TypeError (calling a non-function, writing a property of undefined)
TypeError == <<"error", 0>>
\* new Error('Assignment failed') of AssignmentNode.evaluate
AssignmentFailed == <<"error", 1>>
\* closure.ts: class ReturnValueException { constructor(public value) }
ReturnValueException(v) == <<"rve", v>>
\* e instanceof ReturnValueException
IsReturnValueException(e) == e[1] = "rve"

\* JavaScript truthiness of a value
Truthy(v) ==
    CASE v[1] = "undef" -> FALSE
      [] v[1] = "num"   -> v[2] # 0
      [] v[1] = "str"   -> v[2] # ""
      [] v[1] = "bool"  -> v[2]
      [] v[1] = "null"  -> FALSE
      [] v[1] = "nan"   -> FALSE
      [] OTHER          -> TRUE

\* the + operator of BinaryOpNode.evaluate on the modelled values
NaN == <<"nan", 0>>
Plus(a, b) ==
    IF a[1] = "num" /\ b[1] = "num" THEN Num(a[2] + b[2])
    ELSE IF a[1] = "str" /\ b[1] = "str" THEN Str(a[2] \o b[2])
    ELSE NaN

\* a boolean, and an array by the sequence of its elements
Bool(b) == <<"bool", b>>
Arr(values) == <<"arr", values>>
\* new Error('Illegal assignment') of IncOrDecNode.evaluate
IllegalAssignment == <<"error", 2>>

\* a number, or what converts to NaN in arithmetic
IsNumeric(v) == v[1] \in {"num", "undef", "nan"}

\* the operators - * / of BinaryOpNode.evaluate on numbers, undefined and
\* NaN; a quotient is modelled where it is a whole number
Arithmetic(opType, a, b) ==
    CASE opType = "+" -> Plus(a, b)
      [] opType # "+" /\ IsNumeric(a) /\ IsNumeric(b)
                      /\ (a[1] # "num" \/ b[1] # "num") -> NaN
      [] opType = "-" /\ a[1] = "num" /\ b[1] = "num" -> Num(a[2] - b[2])
      [] opType = "*" /\ a[1] = "num" /\ b[1] = "num" -> Num(a[2] * b[2])
      [] opType = "/" /\ a[1] = "num" /\ b[1] = "num" /\ a[2] >= 0 /\ b[2] > 0
                      /\ a[2] % b[2] = 0 -> Num(a[2] \div b[2])

\* the operators > >= < <= on numbers, undefined and NaN
Relational(opType, a, b) ==
    CASE IsNumeric(a) /\ IsNumeric(b) /\ (a[1] # "num" \/ b[1] # "num") -> Bool(FALSE)
      [] opType = ">"  /\ a[1] = "num" /\ b[1] = "num" -> Bool(a[2] > b[2])
      [] opType = ">=" /\ a[1] = "num" /\ b[1] = "num" -> Bool(a[2] >= b[2])
      [] opType = "<"  /\ a[1] = "num" /\ b[1] = "num" -> Bool(a[2] < b[2])
      [] opType = "<=" /\ a[1] = "num" /\ b[1] = "num" -> Bool(a[2] <= b[2])

\* === on values that are not objects
StrictEquals(a, b) ==
    CASE a[1] # b[1] -> FALSE
      [] a[1] = b[1] /\ a[1] = "nan" -> FALSE
      [] a[1] = b[1] /\ a[1] \in {"num", "str", "bool", "null", "undef", "fn"} ->
            a[2] = b[2]

\* == of the host: as === on one type, undefined == null, and neither of
\* them nor NaN equal to anything else
LooseEquals(a, b) ==
    CASE a[1] = b[1] -> StrictEquals(a, b)
      [] a[1] # b[1] /\ {a[1], b[1]} = {"undef", "null"} -> TRUE
      [] a[1] # b[1] /\ {a[1], b[1]} # {"undef", "null"}
                     /\ {a[1], b[1]} \cap {"undef", "null", "nan"} # {} -> FALSE

\* BinaryOpNode.evaluate on the values of the two operands, for the operators
\* that evaluate both
BinaryValue(opType, a, b) ==
    CASE opType \in {"+", "-", "*", "/"}     -> Arithmetic(opType, a, b)
      [] opType \in {">", ">=", "<", "<="}  -> Relational(opType, a, b)
      [] opType = "==="                     -> Bool(StrictEquals(a, b))
      [] opType = "!=="                     -> Bool(~StrictEquals(a, b))
      [] opType = "=="                      -> Bool(LooseEquals(a, b))
      [] opType = "!="                      -> Bool(~LooseEquals(a, b))

\* UnaryOpNode.evaluate on the value of the operand
UnaryValue(opType, a) ==
    CASE opType = "!" -> Bool(~Truthy(a))
      [] opType = "-" /\ a[1] = "num" -> Num(0 - a[2])
      [] opType = "-" /\ a[1] \in {"undef", "nan"} -> NaN

\* obj[field] of FieldAccessNode.evaluate: the length of an array
FieldOf(obj, field) ==
    CASE obj[1] = "arr" /\ field = "length" -> Num(Len(obj[2]))

(***************************************************************************)
(* Scope frames are JavaScript objects: heap is the sequence of all frame  *)
(* objects ever created, a frame id is an index of heap, and a frame is a  *)
(* function from the names it has as own properties to their values.       *)
(***************************************************************************)
EmptyFrame == [n \in {} |-> Undef]

Bind(frame, name, value) ==
    [m \in (DOMAIN frame) \cup {name} |-> IF m = name THEN value ELSE frame[m]]

\* runtime.ts: pushScope(scope?) -- pushes the given object, or a new {}
pushScopeNew(rt, frame) ==
    [rt EXCEPT !.heap = Append(rt.heap, frame),
               !.scope = Append(rt.scope, Len(rt.heap) + 1)]

\* a pushScope(scope) that pushes a copy of the object
pushScopeCopy(rt, fid) == pushScopeNew(rt, rt.heap[fid])

\* runtime.ts: pushScope(scope) with an existing object (no copy is made)
pushScopeRef(rt, fid) == [rt EXCEPT !.scope = Append(rt.scope, fid)]

\* runtime.ts: popScope -- Array.pop, a no-op on an empty array
popScope(rt) ==
    IF Len(rt.scope) = 0 THEN rt
    ELSE [rt EXCEPT !.scope = SubSeq(rt.scope, 1, Len(rt.scope) - 1)]

\* runtime.ts: pushStack / popStack
pushStack(rt, c) == [rt EXCEPT !.stack = Append(rt.stack, c)]
popStack(rt) ==
    IF Len(rt.stack) = 0 THEN rt
    ELSE [rt EXCEPT !.stack = SubSeq(rt.stack, 1, Len(rt.stack) - 1)]

\* runtime.ts: getFullScope -- a new object, frames merged outer first
RECURSIVE MergeFrames(_, _, _)
MergeFrames(rt, i, acc) ==
    IF i > Len(rt.scope) THEN acc
    ELSE LET scp == rt.heap[rt.scope[i]]
         IN MergeFrames(rt, i + 1,
                [m \in (DOMAIN acc) \cup (DOMAIN scp) |->
                    IF m \in DOMAIN scp THEN scp[m] ELSE acc[m]])

getFullScope(rt) == MergeFrames(rt, 1, EmptyFrame)

\* the stack positions whose frame holds a value other than undefined for name
DefinedAt(rt, name) ==
    {i \in 1..Len(rt.scope) :
        /\ name \in DOMAIN rt.heap[rt.scope[i]]
        /\ rt.heap[rt.scope[i]][name] # Undef}

Max(S) == CHOOSE m \in S : \A k \in S : k <= m

\* runtime.ts: getLocal
getLocal(rt, name) ==
    IF DefinedAt(rt, name) # {}
    THEN rt.heap[rt.scope[Max(DefinedAt(rt, name))]][name]
    ELSE IF name \in DOMAIN rt.global /\ Truthy(rt.global[name])
         THEN rt.global[name]
         ELSE Undef

\* the stack positions whose frame has name as a property (name in scope[i])
HasAt(rt, name) ==
    {i \in 1..Len(rt.scope) : name \in DOMAIN rt.heap[rt.scope[i]]}

Min(S) == CHOOSE m \in S : \A k \in S : m <= k

\* setLocal walking the scope stack bottom-up: writes the outermost frame
setLocalOutermost(rt, name, value) ==
    IF HasAt(rt, name) # {}
    THEN LET fid == rt.scope[Min(HasAt(rt, name))]
         IN [rt EXCEPT !.heap[fid] = Bind(rt.heap[fid], name, value)]
    ELSE rt

\* runtime.ts: setLocal
setLocal(rt, name, value) ==
    IF HasAt(rt, name) # {}
    THEN LET fid == rt.scope[Max(HasAt(rt, name))]
         IN [rt EXCEPT !.heap[fid] = Bind(rt.heap[fid], name, value)]
    ELSE rt

(***************************************************************************)
(* AST nodes (nodes.ts).  A node is a record whose field k is its class;   *)
(* None stands for an absent optional child.                               *)
(***************************************************************************)
None == [k |-> "None"]
LiteralNode(literalValue) == [k |-> "Literal", literalValue |-> literalValue]
LoadNode(varName) == [k |-> "Load", varName |-> varName]
\* a VariableNode of variableType Identifier
VariableNode(left, defaultValue) ==
    [k |-> "Variable", variableType |-> "Identifier", left |-> left,
     defaultValue |-> defaultValue]
VarDeclNode(isConst, variableNode) ==
    [k |-> "VarDecl", isConst |-> isConst, variableNode |-> variableNode]
BlockNode(statements) == [k |-> "Block", statements |-> statements]
ReturnNode(returnValue) == [k |-> "Return", returnValue |-> returnValue]
IfNode(condition, thenStatement, elseStatement) ==
    [k |-> "If", condition |-> condition, thenStatement |-> thenStatement,
     elseStatement |-> elseStatement]
ThrowNode(value) == [k |-> "Throw", value |-> value]
\* catchErrorName "" stands for a catch without a binding
TryCatchNode(tryBlock, catchErrorName, catchBlock, finallyBlock) ==
    [k |-> "TryCatch", tryBlock |-> tryBlock, catchErrorName |-> catchErrorName,
     catchBlock |-> catchBlock, finallyBlock |-> finallyBlock]
FunctionNode(parameters, body) ==
    [k |-> "Function", parameters |-> parameters, body |-> body]
BinaryOpNode(left, opType, right) ==
    [k |-> "BinaryOp", left |-> left, opType |-> opType, right |-> right]
AssignmentNode(left, opType, right) ==
    [k |-> "Assignment", left |-> left, opType |-> opType, right |-> right]
FuncCallNode(object, args) == [k |-> "FuncCall", object |-> object, args |-> args]
\* the further node classes the Parser builds
NoopNode == [k |-> "Noop"]
WhileNode(condition, loop) == [k |-> "While", condition |-> condition, loop |-> loop]
TernaryOpNode(condition, thenExpr, elseExpr) ==
    [k |-> "TernaryOp", condition |-> condition, thenExpr |-> thenExpr,
     elseExpr |-> elseExpr]
UnaryOpNode(opType, expr) == [k |-> "UnaryOp", opType |-> opType, expr |-> expr]
IncOrDecNode(pre, opType, expr) ==
    [k |-> "IncOrDec", pre |-> pre, opType |-> opType, expr |-> expr]
ArrayAccessNode(object, index) ==
    [k |-> "ArrayAccess", object |-> object, index |-> index]
FieldAccessNode(object, field) ==
    [k |-> "FieldAccess", object |-> object, field |-> field]
MethodCallNode(object, fieldName, args) ==
    [k |-> "MethodCall", object |-> object, fieldName |-> fieldName, args |-> args]
ParenthesesNode(expr) == [k |-> "Parentheses", expr |-> expr]
SpreadNode(expr) == [k |-> "Spread", expr |-> expr]
ArrayNode(elements) == [k |-> "Array", elements |-> elements]
TypeofNode(expr) == [k |-> "Typeof", expr |-> expr]
NewNode(className, args) == [k |-> "New", className |-> className, args |-> args]
\* a VariableNode of variableType DestructureArray or DestructureObject: left
\* is the list of its IDestructuredValue, Hole standing for the null the
\* parser pushes for an omitted element of an array pattern
DestructuringNode(variableType, left, defaultValue) ==
    [k |-> "Variable", variableType |-> variableType, left |-> left,
     defaultValue |-> defaultValue]
DestructuredValue(name, defaultValue, isRest) ==
    [k |-> "Destructured", name |-> name, defaultValue |-> defaultValue,
     isRest |-> isRest]
Hole == [k |-> "Hole"]
\* an ExportNode as the parser fills it: one of defaultValue, varDeclNode and
\* fromFile is set
ExportNode(defaultValue, varDeclNode, fromFile) ==
    [k |-> "Export", defaultValue |-> defaultValue, varDeclNode |-> varDeclNode,
     fromFile |-> fromFile]

(***************************************************************************)
(* Evaluation.  evaluateNode(node, rt) is the whole effect of              *)
(* node.evaluate(runtime): the runtime it leaves (rt), whether it returned *)
(* (k = "normal") or threw (k = "throw"), and the value returned/thrown.   *)
(* rt.log records the events of the evaluation that the properties         *)
(* observe: the exit of every function call and every run of a catch.      *)
(***************************************************************************)
Normal(rt, v) == [rt |-> rt, k |-> "normal", v |-> v]
Thrown(rt, v) == [rt |-> rt, k |-> "throw", v |-> v]

Event(ev, c, v, d, alt) == [ev |-> ev, c |-> c, v |-> v, d |-> d, alt |-> alt]
Logged(rt, event) == [rt EXCEPT !.log = Append(rt.log, event)]

\* the value v handed to the computation K that continues with it
With(v, K(_)) == K(v)

RECURSIVE evaluateNode(_, _)
RECURSIVE evaluateStatements(_, _, _)
RECURSIVE evaluateArgs(_, _, _, _)
RECURSIVE marshallArgs(_, _, _, _)
RECURSIVE func(_, _, _)
RECURSIVE evaluateWhile(_, _)
RECURSIVE evaluateElements(_, _, _, _)
RECURSIVE assignDestructured(_, _, _, _)

\* VariableNode.assignValue, case Identifier: runtime.getScope()[left] = value
assignValue(rt, left, value) ==
    IF Len(rt.scope) = 0 THEN Thrown(rt, TypeError)
    ELSE LET fid == rt.scope[Len(rt.scope)]
         IN Normal([rt EXCEPT !.heap[fid] = Bind(rt.heap[fid], left, value)], Undef)

\* a destructuring whose rest element starts one value early, at the value
\* that the element before it stands for
destructuredValueRestOneEarly(rt, destructuredVar, values, index) ==
    IF destructuredVar.isRest
    THEN Normal(rt, Arr(SubSeq(values, index - 1, Len(values))))
    ELSE IF index <= Len(values) /\ values[index] # Undef
         THEN Normal(rt, values[index])
         ELSE IF destructuredVar.defaultValue.k # "None"
              THEN evaluateNode(destructuredVar.defaultValue, rt)
              ELSE Normal(rt, Undef)

\* VariableNode.assignValue, case DestructureArray, the value that the
\* variable at index gets: the rest of the values, or the value at index, or
\* else its default value, or else undefined
destructuredValue(rt, destructuredVar, values, index) ==
    IF destructuredVar.isRest
    THEN Normal(rt, Arr(SubSeq(values, index, Len(values))))
    ELSE IF index <= Len(values) /\ values[index] # Undef
         THEN Normal(rt, values[index])
         ELSE IF destructuredVar.defaultValue.k # "None"
              THEN evaluateNode(destructuredVar.defaultValue, rt)
              ELSE Normal(rt, Undef)

\* VariableNode.assignValue, case DestructureArray: the forEach over the
\* variables; a hole is no variable and is passed over
assignDestructured(rt, variables, values, index) ==
    IF index > Len(variables) THEN Normal(rt, Undef)
    ELSE IF variables[index].k = "Hole"
         THEN assignDestructured(rt, variables, values, index + 1)
         ELSE With(destructuredValue(rt, variables[index], values, index), LAMBDA d :
                IF d.k = "throw" THEN d
                ELSE With(assignValue(d.rt, variables[index].name, d.v), LAMBDA a :
                        IF a.k = "throw" THEN a
                        ELSE assignDestructured(a.rt, variables, values, index + 1)))

\* VariableNode.assignValue
VariableNodeAssignValue(rt, node, value) ==
    CASE node.variableType = "Identifier" -> assignValue(rt, node.left, value)
      [] node.variableType = "DestructureArray" /\ value[1] = "arr" ->
            assignDestructured(rt, node.left, value[2], 1)
      [] node.variableType = "DestructureArray" /\ value[1] \in {"undef", "null"} ->
            IF Len(node.left) = 0 THEN Normal(rt, Undef) ELSE Thrown(rt, TypeError)

\* VariableNode.evaluate: assigns only when there is an initializer
VariableNodeEvaluate(node, rt) ==
    IF node.defaultValue.k # "None"
    THEN With(evaluateNode(node.defaultValue, rt), LAMBDA r :
            IF r.k = "throw" THEN r
            ELSE With(VariableNodeAssignValue(r.rt, node, r.v), LAMBDA a :
                    IF a.k = "throw" THEN a ELSE Normal(a.rt, r.v)))
    ELSE Normal(rt, Undef)

\* a BlockNode.evaluate that re-propagates the return signal without popping
\* its frame
evaluateStatementsKeepingFrame(statements, i, rt) ==
    IF i > Len(statements) THEN Normal(popScope(rt), Undef)
    ELSE With(evaluateNode(statements[i], rt), LAMBDA r :
            IF r.k = "throw" THEN r
            ELSE evaluateStatements(statements, i + 1, r.rt))

\* BlockNode.evaluate, the loop over the statements and the final popScope
evaluateStatements(statements, i, rt) ==
    IF i > Len(statements) THEN Normal(popScope(rt), Undef)
    ELSE With(evaluateNode(statements[i], rt), LAMBDA r :
            IF r.k = "throw"
            THEN IF IsReturnValueException(r.v)
                 THEN Thrown(popScope(r.rt), r.v)
                 ELSE r
            ELSE evaluateStatements(statements, i + 1, r.rt))

\* BlockNode.evaluate
BlockNodeEvaluate(node, rt) ==
    evaluateStatements(node.statements, 1, pushScopeNew(rt, EmptyFrame))

\* ReturnNode.evaluate
ReturnNodeEvaluate(node, rt) ==
    IF node.returnValue.k # "None"
    THEN With(evaluateNode(node.returnValue, rt), LAMBDA r :
            IF r.k = "throw" THEN r
            ELSE Thrown(r.rt, ReturnValueException(r.v)))
    ELSE Thrown(rt, ReturnValueException(Undef))

\* IfNode.evaluate, the branch taken once the condition c has a value
evaluateBranch(node, c) ==
    IF Truthy(c.v)
    THEN evaluateNode(node.thenStatement, c.rt)
    ELSE IF node.elseStatement.k # "None"
         THEN evaluateNode(node.elseStatement, c.rt)
         ELSE Normal(c.rt, Undef)

\* IfNode.evaluate
IfNodeEvaluate(node, rt) ==
    With(evaluateNode(node.condition, rt), LAMBDA c :
        IF c.k = "throw" THEN c
        ELSE With(evaluateBranch(node, c), LAMBDA b :
                IF b.k = "throw" THEN b ELSE Normal(b.rt, Undef)))

\* ThrowNode.evaluate
ThrowNodeEvaluate(node, rt) ==
    With(evaluateNode(node.value, rt), LAMBDA r : Thrown(r.rt, r.v))

\* TryCatchNode.evaluate, the local function evaluateCatch
evaluateCatch(node, rt, e) ==
    With(Logged(rt, Event("catch", 0, e, <<>>, <<>>)), LAMBDA rtl :
        IF node.catchErrorName # ""
        THEN With(evaluateNode(node.catchBlock,
                    pushScopeNew(rtl, Bind(EmptyFrame, node.catchErrorName, e))),
                  LAMBDA r :
                    IF r.k = "throw" THEN r ELSE Normal(popScope(r.rt), Undef))
        ELSE evaluateNode(node.catchBlock, rtl))

\* TryCatchNode.evaluate, the try statement without its finally clause
evaluateTry(node, rt) ==
    With(evaluateNode(node.tryBlock, rt), LAMBDA t :
        IF t.k = "throw" THEN evaluateCatch(node, t.rt, t.v) ELSE t)

\* a TryCatchNode.evaluate whose finally block is evaluated only when the try
\* block or the catch block completed
evaluateTryCatchFinallyOnCompletion(node, rt) ==
    With(evaluateTry(node, rt), LAMBDA c :
        IF c.k = "throw" THEN c
        ELSE IF node.finallyBlock.k # "None"
        THEN With(evaluateNode(node.finallyBlock,
                    Logged(c.rt, Event("finally", 0, Undef, <<>>, <<>>))),
                  LAMBDA f : IF f.k = "throw" THEN f ELSE Normal(f.rt, Undef))
        ELSE Normal(c.rt, Undef))

\* TryCatchNode.evaluate, between its entry and its exit
evaluateTryCatch(node, rt) ==
    With(evaluateTry(node, rt), LAMBDA c :
        IF node.finallyBlock.k # "None"
        THEN With(evaluateNode(node.finallyBlock,
                    Logged(c.rt, Event("finally", 0, Undef, <<>>, <<>>))),
                  LAMBDA f :
                    IF f.k = "throw" THEN f
                    ELSE IF c.k = "throw" THEN Thrown(f.rt, c.v)
                    ELSE Normal(f.rt, Undef))
        ELSE IF c.k = "throw" THEN c ELSE Normal(c.rt, Undef))

\* TryCatchNode.evaluate, with its entry and its exit recorded in the log:
\* whether the statement has a finally block, and how and with what it exited
TryCatchNodeEvaluate(node, rt) ==
    With(evaluateTryCatch(node,
            Logged(rt, Event("try", IF node.finallyBlock.k # "None" THEN 1 ELSE 0,
                             Undef, <<>>, <<>>))),
         LAMBDA r :
            [r EXCEPT !.rt = Logged(r.rt, Event("tryEnd", 0, r.v, <<>>, <<r.k>>))])

\* FunctionNode.generateClosure: a new closure over a new flattened frame
generateClosure(node, rt) ==
    Normal([rt EXCEPT !.heap = Append(rt.heap, getFullScope(rt)),
                      !.closures = Append(rt.closures,
                            [scope |-> Len(rt.heap) + 1, funcExpr |-> node])],
           Fn(Len(rt.closures) + 1))

\* FunctionNode.marshallArgs, the value of parameter i: the argument given,
\* or else the parameter's default value, or else undefined
evaluateParam(rt, param, given) ==
    IF given # Undef THEN Normal(rt, given)
    ELSE IF param.defaultValue.k # "None"
         THEN evaluateNode(param.defaultValue, rt)
         ELSE Normal(rt, Undef)

\* FunctionNode.marshallArgs, the forEach over the parameters
marshallArgs(rt, params, args, i) ==
    IF i > Len(params) THEN Normal(rt, Undef)
    ELSE With(evaluateParam(rt, params[i],
                            IF i <= Len(args) THEN args[i] ELSE Undef),
              LAMBDA d :
                IF d.k = "throw" THEN d
                ELSE With(VariableNodeAssignValue(d.rt, params[i], d.v), LAMBDA a :
                        IF a.k = "throw" THEN a
                        ELSE marshallArgs(a.rt, params, args, i + 1)))

\* the depths of the scope stack and of the closure stack
Depths(rt) == <<Len(rt.scope), Len(rt.stack)>>

\* closure.func of FunctionNode.generateClosure: one call of closure c
funcBody(rt, c, funcArgs) ==
    With(marshallArgs(
            pushScopeNew(pushScopeRef(pushStack(rt, c), rt.closures[c].scope),
                         EmptyFrame),
            rt.closures[c].funcExpr.parameters, funcArgs, 1),
         LAMBDA m :
            IF m.k = "throw" THEN m
            ELSE With(evaluateNode(rt.closures[c].funcExpr.body, m.rt), LAMBDA b :
                    IF b.k = "throw"
                    THEN IF IsReturnValueException(b.v)
                         THEN Normal(popStack(popScope(popScope(b.rt))), b.v[2])
                         ELSE b
                    ELSE Normal(popStack(popScope(popScope(b.rt))), b.v)))

ExitKind(r) == IF r.k = "throw" THEN "callThrow" ELSE "callReturn"

\* a call of closure c, with its exit recorded in the log: how it exited, the
\* value returned or thrown, the stack depths before and after, and (alt) how
\* the same call exits when the caller's scope stack binds nothing
func(rt, c, funcArgs) ==
    With(funcBody(rt, c, funcArgs), LAMBDA r :
        With(funcBody([rt EXCEPT !.scope = <<>>], c, funcArgs), LAMBDA a :
            [r EXCEPT !.rt = Logged(r.rt,
                Event(ExitKind(r), c, r.v, Depths(rt) \o Depths(r.rt),
                      <<ExitKind(a), a.v>>))]))

\* FuncCallNode.evaluate, the map over the arguments
evaluateArgs(args, i, rt, acc) ==
    IF i > Len(args) THEN Normal(rt, acc)
    ELSE With(evaluateNode(args[i], rt), LAMBDA r :
            IF r.k = "throw" THEN r
            ELSE evaluateArgs(args, i + 1, r.rt, Append(acc, r.v)))

\* FuncCallNode.evaluate: obj.apply(runtime.global, args)
FuncCallNodeEvaluate(node, rt) ==
    With(evaluateNode(node.object, rt), LAMBDA o :
        IF o.k = "throw" THEN o
        ELSE With(evaluateArgs(node.args, 1, o.rt, <<>>), LAMBDA a :
                IF a.k = "throw" THEN a
                ELSE IF o.v[1] # "fn" THEN Thrown(a.rt, TypeError)
                ELSE func(a.rt, o.v[2], a.v)))

\* BinaryOpNode.evaluate: && and || give the left value or else the right
\* one, every other operator evaluates both operands
BinaryOpNodeEvaluate(node, rt) ==
    With(evaluateNode(node.left, rt), LAMBDA l :
        IF l.k = "throw" THEN l
        ELSE IF node.opType = "&&" /\ ~Truthy(l.v) THEN l
        ELSE IF node.opType = "||" /\ Truthy(l.v) THEN l
        ELSE With(evaluateNode(node.right, l.rt), LAMBDA r :
                IF r.k = "throw" \/ node.opType \in {"&&", "||"} THEN r
                ELSE Normal(r.rt, BinaryValue(node.opType, l.v, r.v))))

\* WhileNode.evaluate
evaluateWhile(node, rt) ==
    With(evaluateNode(node.condition, rt), LAMBDA c :
        IF c.k = "throw" THEN c
        ELSE IF ~Truthy(c.v) THEN Normal(c.rt, Undef)
        ELSE With(evaluateNode(node.loop, c.rt), LAMBDA b :
                IF b.k = "throw" THEN b ELSE evaluateWhile(node, b.rt)))

\* TernaryOpNode.evaluate
TernaryOpNodeEvaluate(node, rt) ==
    With(evaluateNode(node.condition, rt), LAMBDA c :
        IF c.k = "throw" THEN c
        ELSE IF Truthy(c.v) THEN evaluateNode(node.thenExpr, c.rt)
        ELSE evaluateNode(node.elseExpr, c.rt))

\* UnaryOpNode.evaluate
UnaryOpNodeEvaluate(node, rt) ==
    With(evaluateNode(node.expr, rt), LAMBDA r :
        IF r.k = "throw" THEN r ELSE Normal(r.rt, UnaryValue(node.opType, r.v)))

\* IncOrDecNode.evaluate of a variable, and of what cannot be assigned
IncOrDecNodeEvaluate(node, rt) ==
    CASE node.expr.k = "Load" ->
            With(Arithmetic(IF node.opType = "--" THEN "-" ELSE "+",
                            getLocal(rt, node.expr.varName), Num(1)), LAMBDA v :
                Normal(setLocal(rt, node.expr.varName, v),
                       IF node.pre THEN v ELSE getLocal(rt, node.expr.varName)))
      [] node.expr.k \notin {"Load", "ArrayAccess", "FieldAccess"} ->
            Thrown(rt, IllegalAssignment)

\* ArrayNode.evaluate, the forEach over the elements
evaluateElements(elements, i, rt, values) ==
    IF i > Len(elements) THEN Normal(rt, Arr(values))
    ELSE With(evaluateNode(elements[i], rt), LAMBDA r :
            IF r.k = "throw" THEN r
            ELSE IF elements[i].k = "Spread"
                 THEN CASE r.v[1] = "arr" ->
                               evaluateElements(elements, i + 1, r.rt, values \o r.v[2])
                        [] r.v[1] \in {"undef", "null", "num", "bool", "nan"} ->
                               Thrown(r.rt, TypeError)
                 ELSE evaluateElements(elements, i + 1, r.rt, Append(values, r.v)))

\* FieldAccessNode.evaluate
FieldAccessNodeEvaluate(node, rt) ==
    With(evaluateNode(node.object, rt), LAMBDA o :
        IF o.k = "throw" THEN o
        ELSE IF o.v[1] \in {"undef", "null"} THEN Thrown(o.rt, TypeError)
        ELSE Normal(o.rt, FieldOf(o.v, node.field)))

\* AssignmentNode.evaluate with a LoadNode as its target, or with a target
\* that is no variable and no array or field access
AssignmentNodeEvaluate(node, rt) ==
    CASE node.left.k \notin {"Load", "ArrayAccess", "FieldAccess"} ->
            Thrown(rt, AssignmentFailed)
      [] node.left.k = "Load" ->
            With(evaluateNode(node.right, rt), LAMBDA r :
                IF r.k = "throw" THEN r
                ELSE IF node.opType = "="
                     THEN Normal(setLocal(r.rt, node.left.varName, r.v), Undef)
                     ELSE Normal(setLocal(r.rt, node.left.varName,
                                    Arithmetic(IF node.opType = "+=" THEN "+"
                                               ELSE IF node.opType = "-=" THEN "-"
                                               ELSE IF node.opType = "*=" THEN "*"
                                               ELSE "/",
                                               getLocal(rt, node.left.varName), r.v)),
                                 Undef))

\* Runtime.evaluateNode: node.evaluate(this)
evaluateNode(node, rt) ==
    CASE node.k = "Literal"    -> Normal(rt, node.literalValue)
      [] node.k = "Load"       -> Normal(rt, getLocal(rt, node.varName))
      [] node.k = "VarDecl"    -> VariableNodeEvaluate(node.variableNode, rt)
      [] node.k = "Block"      -> BlockNodeEvaluate(node, rt)
      [] node.k = "Return"     -> ReturnNodeEvaluate(node, rt)
      [] node.k = "If"         -> IfNodeEvaluate(node, rt)
      [] node.k = "Throw"      -> ThrowNodeEvaluate(node, rt)
      [] node.k = "TryCatch"   -> TryCatchNodeEvaluate(node, rt)
      [] node.k = "Function"   -> generateClosure(node, rt)
      [] node.k = "FuncCall"   -> FuncCallNodeEvaluate(node, rt)
      [] node.k = "BinaryOp"   -> BinaryOpNodeEvaluate(node, rt)
      [] node.k = "Assignment" -> AssignmentNodeEvaluate(node, rt)
      [] node.k = "Noop"       -> Normal(rt, Undef)
      [] node.k = "While"      -> evaluateWhile(node, rt)
      [] node.k = "TernaryOp"  -> TernaryOpNodeEvaluate(node, rt)
      [] node.k = "UnaryOp"    -> UnaryOpNodeEvaluate(node, rt)
      [] node.k = "IncOrDec"   -> IncOrDecNodeEvaluate(node, rt)
      [] node.k \in {"Parentheses", "Spread"} -> evaluateNode(node.expr, rt)
      [] node.k = "Array"      -> evaluateElements(node.elements, 1, rt, <<>>)
      [] node.k = "FieldAccess" -> FieldAccessNodeEvaluate(node, rt)

(***************************************************************************)
(* The statements the host evaluates.  Names: x, y (variables), f (a       *)
(* function), e (a catch binding).                                         *)
(***************************************************************************)
Let(name, expr) == VarDeclNode(FALSE, VariableNode(name, expr))
Const(name, expr) == VarDeclNode(TRUE, VariableNode(name, expr))
Set(name, expr) == AssignmentNode(LoadNode(name), "=", expr)
Call(name, args) == FuncCallNode(LoadNode(name), args)
Arrow(params, body) == FunctionNode(params, body)
Param(name) == VariableNode(name, None)

Programs == <<
    \* 1: let x = 1;
    Let("x", LiteralNode(Num(1))),
    \* 2: let x;
    Let("x", None),
    \* 3: let x = undefined;
    Let("x", LiteralNode(Undef)),
    \* 4: x = 2;
    Set("x", LiteralNode(Num(2))),
    \* 5: { let x = 2; y = x; }
    BlockNode(<<Let("x", LiteralNode(Num(2))), Set("y", LoadNode("x"))>>),
    \* 6: try { throw 1; } catch (e) { x = e; }
    TryCatchNode(BlockNode(<<ThrowNode(LiteralNode(Num(1)))>>), "e",
                 BlockNode(<<Set("x", LoadNode("e"))>>), None),
    \* 7: try { x = 2; } catch { } finally { y = 1; }
    TryCatchNode(BlockNode(<<Set("x", LiteralNode(Num(2)))>>), "",
                 BlockNode(<<>>), BlockNode(<<Set("y", LiteralNode(Num(1)))>>)),
    \* 8: const f = () => y;
    Const("f", Arrow(<<>>, LoadNode("y"))),
    \* 9: const f = (x) => x;
    Const("f", Arrow(<<Param("x")>>, LoadNode("x"))),
    \* 10: const f = () => { return x; };
    Const("f", Arrow(<<>>, BlockNode(<<ReturnNode(LoadNode("x"))>>))),
    \* 11: const f = () => { try { return 1; } catch (e) { return e; } };
    Const("f", Arrow(<<>>, BlockNode(<<
        TryCatchNode(BlockNode(<<ReturnNode(LiteralNode(Num(1)))>>), "e",
                     BlockNode(<<ReturnNode(LoadNode("e"))>>), None)>>))),
    \* 12: const f = () => { throw 1; };
    Const("f", Arrow(<<>>, BlockNode(<<ThrowNode(LiteralNode(Num(1)))>>))),
    \* 13: const f = (x = y()) => x;
    Const("f", Arrow(<<VariableNode("x", Call("y", <<>>))>>, LoadNode("x"))),
    \* 14: y = f();
    Set("y", Call("f", <<>>)),
    \* 15: try { y = f(); } catch (e) { y = e; }
    TryCatchNode(BlockNode(<<Set("y", Call("f", <<>>))>>), "e",
                 BlockNode(<<Set("y", LoadNode("e"))>>), None),
    \* 16: { let y = 2; x = f(); }
    BlockNode(<<Let("y", LiteralNode(Num(2))), Set("x", Call("f", <<>>))>>),
    \* 17: if (x) { let y = 1; } else x = 1;
    IfNode(LoadNode("x"), BlockNode(<<Let("y", LiteralNode(Num(1)))>>),
           Set("x", LiteralNode(Num(1)))),
    \* 18: return x;
    ReturnNode(LoadNode("x")),
    \* 19: let y = 2;
    Let("y", LiteralNode(Num(2))),
    \* 20: const f = () => { while (1) { if (1) { return 5; } throw 1; } throw 2; };
    Const("f", Arrow(<<>>, BlockNode(<<
        WhileNode(LiteralNode(Num(1)), BlockNode(<<
            IfNode(LiteralNode(Num(1)),
                   BlockNode(<<ReturnNode(LiteralNode(Num(5)))>>), None),
            ThrowNode(LiteralNode(Num(1)))>>)),
        ThrowNode(LiteralNode(Num(2)))>>))),
    \* 21: const f = () => { { if (1) return; throw 1; } throw 2; };
    Const("f", Arrow(<<>>, BlockNode(<<
        BlockNode(<<IfNode(LiteralNode(Num(1)), ReturnNode(None), None),
                    ThrowNode(LiteralNode(Num(1)))>>),
        ThrowNode(LiteralNode(Num(2)))>>)))
>>

\* the function expressions of the programs that return from nested statements
NestedReturn == Programs[20].variableNode.defaultValue
NestedBareReturn == Programs[21].variableNode.defaultValue

(***************************************************************************)
(* The host: one Runtime, driven through its public operations.            *)
(***************************************************************************)
Names == {"x", "y"}
ArgScopes == {EmptyFrame, Bind(EmptyFrame, "x", Num(1))}
Globals == {EmptyFrame, Bind(EmptyFrame, "y", Num(7))}
HostValues == {Undef, Num(3)}

RT == [scope |-> scope, heap |-> heap, stack |-> stack, closures |-> closures,
       global |-> global, log |-> <<>>]

\* what the last host operation was and what it produced; sd and cd are the
\* depths of the scope stack and of the closure stack before it
NoLast == [op |-> "none", arg |-> 0, name |-> "", k |-> "normal", v |-> Undef,
           sd |-> 0, cd |-> 0, log |-> <<>>]

Did(op, arg, name, r) ==
    [op |-> op, arg |-> arg, name |-> name, k |-> r.k, v |-> r.v,
     sd |-> Len(scope), cd |-> Len(stack), log |-> r.rt.log]

Install(rt) ==
    /\ scope' = rt.scope
    /\ heap' = rt.heap
    /\ stack' = rt.stack
    /\ closures' = rt.closures

\* a Bundler that is never used
BundlerIdle ==
    /\ fs = <<>>
    /\ entry = [currentDir |-> <<>>, fileName |-> <<>>]
    /\ context = <<>>
    /\ files = <<>>
    /\ tasks = <<>>
    /\ status = "idle"
    /\ bundled = [entryName |-> <<>>, modules |-> <<>>]
    /\ truncated = FALSE

\* no Lexer constructed
LexerIdle ==
    /\ lexer = <<>>
    /\ lexLast = <<>>

\* no Parser constructed
ParserIdle ==
    /\ program = <<>>
    /\ parsed = <<>>
    /\ emitted = <<>>
    /\ reparsed = <<>>
    /\ ran = <<>>
    /\ reran = <<>>

SyntaxIdle == LexerIdle /\ ParserIdle

\* new Runtime(): empty scope stack, empty closure stack, no global yet
RuntimeNew ==
    /\ scope = <<>>
    /\ heap = <<>>
    /\ stack = <<>>
    /\ closures = <<>>
    /\ global = EmptyFrame
    /\ last = NoLast
    /\ ops = 0

InitEval == RuntimeNew /\ BundlerIdle /\ SyntaxIdle

\* runtime.setArgs({scope, global})
SetArgs(s, g) ==
    /\ Len(scope) = 0
    /\ Install(pushScopeNew(RT, s))
    /\ global' = g
    /\ last' = [NoLast EXCEPT !.op = "setArgs"]
    /\ UNCHANGED <<ops, bundleVars, syntaxVars>>

Ready == Len(scope) > 0 /\ ops < MaxOps

\* the host evaluates statement p: runtime.evaluateNode(node)
Evaluate(p) ==
    /\ Ready
    /\ LET r == evaluateNode(Programs[p], RT)
       IN /\ Install(r.rt)
          /\ last' = Did("evaluate", p, "", r)
    /\ ops' = ops + 1
    /\ UNCHANGED <<global, bundleVars, syntaxVars>>

\* the host calls a function value c it obtained from the runtime
CallFunction(c, args) ==
    /\ Ready
    /\ c \in 1..Len(closures)
    /\ LET r == func(RT, c, args)
       IN /\ Install(r.rt)
          /\ last' = Did("call", c, "", r)
    /\ ops' = ops + 1
    /\ UNCHANGED <<global, bundleVars, syntaxVars>>

\* runtime.getLocal(name)
GetLocal(name) ==
    /\ Ready
    /\ last' = Did("getLocal", 0, name, Normal(RT, getLocal(RT, name)))
    /\ ops' = ops + 1
    /\ UNCHANGED <<scope, heap, stack, closures, global, bundleVars, syntaxVars>>

\* runtime.setLocal(name, value)
SetLocal(name, value) ==
    /\ Ready
    /\ Install(setLocal(RT, name, value))
    /\ last' = Did("setLocal", 0, name, Normal(RT, value))
    /\ ops' = ops + 1
    /\ UNCHANGED <<global, bundleVars, syntaxVars>>

\* runtime.pushScope()
PushScope ==
    /\ Ready
    /\ Install(pushScopeNew(RT, EmptyFrame))
    /\ last' = Did("pushScope", 0, "", Normal(RT, Undef))
    /\ ops' = ops + 1
    /\ UNCHANGED <<global, bundleVars, syntaxVars>>

\* runtime.popScope(), by a host that pops only what it pushed
PopScope ==
    /\ Ready
    /\ Len(scope) > 1
    /\ Install(popScope(RT))
    /\ last' = Did("popScope", 0, "", Normal(RT, Undef))
    /\ ops' = ops + 1
    /\ UNCHANGED <<global, bundleVars, syntaxVars>>

NextEval ==
    \/ \E s \in ArgScopes, g \in Globals : SetArgs(s, g)
    \/ \E p \in 1..Len(Programs) : Evaluate(p)
    \/ \E c \in 1..2, args \in {<<>>, <<Num(3)>>} : CallFunction(c, args)
    \/ \E name \in Names : GetLocal(name)
    \/ \E name \in Names, value \in HostValues : SetLocal(name, value)
    \/ PushScope
    \/ PopScope

SpecEval == InitEval /\ [][NextEval]_vars

(***************************************************************************)
(* Paths.  A path is the sequence of its segments; <<>> is ".".            *)
(***************************************************************************)
\* path.normalize on a relative path: "." is dropped, ".." removes a segment
RECURSIVE Normalize(_, _)
Normalize(p, acc) ==
    IF p = <<>> THEN acc
    ELSE IF Head(p) = "." THEN Normalize(Tail(p), acc)
    ELSE IF Head(p) = ".." /\ acc # <<>> /\ acc[Len(acc)] # ".."
         THEN Normalize(Tail(p), SubSeq(acc, 1, Len(acc) - 1))
    ELSE Normalize(Tail(p), Append(acc, Head(p)))

\* path.join(a, b)
PathJoin(a, b) == Normalize(a \o b, <<>>)
\* path.dirname(p): "." for a path of one segment
PathDirname(p) == IF Len(p) <= 1 THEN <<".">> ELSE SubSeq(p, 1, Len(p) - 1)
\* path.basename(p)
PathBasename(p) == IF p = <<>> THEN <<>> ELSE <<p[Len(p)]>>

(***************************************************************************)
(* Top-level statements of a module, as the bundler sees them.             *)
(***************************************************************************)
\* objects is meaningful only when hasObjects (the field is set by the parser
\* for the `import { ... } from` form only); "" is an absent name
ImportNode(defaultName, namespaceName, hasObjects, objects, fromFile) ==
    [k |-> "Import", defaultName |-> defaultName, namespaceName |-> namespaceName,
     hasObjects |-> hasObjects, objects |-> objects, fromFile |-> fromFile,
     defaultValue |-> "", varNames |-> <<>>, allExports |-> FALSE, src |-> ""]
\* export default <expr>;
ExportDefaultNode(defaultValue) ==
    [k |-> "ExportDefault", defaultName |-> "", namespaceName |-> "",
     hasObjects |-> FALSE, objects |-> <<>>, fromFile |-> <<>>,
     defaultValue |-> defaultValue, varNames |-> <<>>, allExports |-> FALSE, src |-> ""]
\* export const|let <variable>;
ExportVarDeclNode(varNames, src) ==
    [k |-> "ExportVarDecl", defaultName |-> "", namespaceName |-> "",
     hasObjects |-> FALSE, objects |-> <<>>, fromFile |-> <<>>,
     defaultValue |-> "", varNames |-> varNames, allExports |-> FALSE, src |-> src]
\* export { a, b as c } from 'file';  and  export * from 'file';
ExportFromNode(allExports, namedExports, fileName) ==
    [k |-> "ExportFrom", defaultName |-> "", namespaceName |-> "",
     hasObjects |-> FALSE, objects |-> namedExports, fromFile |-> fileName,
     defaultValue |-> "", varNames |-> <<>>, allExports |-> allExports, src |-> ""]
\* any other statement, by its source text
OtherNode(src) ==
    [k |-> "Other", defaultName |-> "", namespaceName |-> "",
     hasObjects |-> FALSE, objects |-> <<>>, fromFile |-> <<>>,
     defaultValue |-> "", varNames |-> <<>>, allExports |-> FALSE, src |-> src]

Named(name, alias) == [name |-> name, alias |-> alias]

\* fileToSource: the ImportNodes first, then the other nodes, each in order
IsImportNode(n) == n.k = "Import"
ImportsFirst(list) ==
    SelectSeq(list, IsImportNode) \o SelectSeq(list, LAMBDA n : ~IsImportNode(n))

(***************************************************************************)
(* Emitted text, as a sequence of pieces.                                  *)
(***************************************************************************)
Piece(t, names, req, src) == [t |-> t, names |-> names, req |-> req, src |-> src]

\* the value handleSourceImport resolves with: __eco_require__('<path>')
Require(path) == <<"req", path>>
NullExport == <<"null">>

\* a formatExports that lists the named exports whenever there are any
formatExportsNamedFirst(ctx) ==
    IF Len(ctx.exports) > 0
    THEN <<Piece("module.exports=named", ctx.exports, <<>>, "")>>
    ELSE IF ctx.defaultExport # NullExport
         THEN <<Piece("module.exports=default", <<>>, ctx.defaultExport, "")>>
         ELSE <<>>

\* bundler.ts: formatExports
formatExports(ctx) ==
    IF ctx.defaultExport # NullExport
    THEN <<Piece("module.exports=default", <<>>, ctx.defaultExport, "")>>
    ELSE IF Len(ctx.exports) > 0
         THEN <<Piece("module.exports=named", ctx.exports, <<>>, "")>>
         ELSE <<>>

(***************************************************************************)
(* The Bundler.  tasks is the chain of bundleFile invocations that are in  *)
(* progress, innermost last, each with the position it is suspended at;    *)
(* context and files are the fields of the Bundler.  Of an await chain     *)
(* longer than MaxDepth only the innermost MaxDepth invocations are kept   *)
(* (truncated records that outer ones were dropped).                       *)
(***************************************************************************)
Push(seq, x) ==
    IF Len(seq) >= MaxDepth THEN Append(Tail(seq), x) ELSE Append(seq, x)
Pop(seq) == SubSeq(seq, 1, Len(seq) - 1)
Top(seq) == seq[Len(seq)]

\* bundler.ts: the default fileNameResolver, path.join(currentDir, filename)
fileNameResolver(currentDir, filename) == PathJoin(currentDir, filename)

\* bundler.ts: pushContext
NewContext(currentDir) ==
    [currentDir |-> currentDir, exports |-> <<>>, defaultExport |-> NullExport,
     hasImports |-> FALSE]

\* bundleFile up to its first await: pushContext, resolveFileName, and the
\* call of the import resolver
StartBundleFile(ctxs, tsks, currentDir, fileName) ==
    LET dir == PathJoin(currentDir, PathDirname(fileName))
        filePath == fileNameResolver(dir, PathBasename(fileName))
    IN /\ context' = Push(ctxs, NewContext(dir))
       /\ tasks' = Push(tsks, [filePath |-> filePath, phase |-> "resolving",
                               nodes |-> <<>>, idx |-> 0, output |-> <<>>])
       /\ truncated' = (truncated \/ Len(tsks) >= MaxDepth)

\* bundler.bundle(currentDir, fileName), called once by the host
Bundle(currentDir, fileName) ==
    /\ status = "idle"
    /\ status' = "running"
    /\ entry' = [currentDir |-> currentDir, fileName |-> fileName]
    /\ StartBundleFile(context, tasks, currentDir, fileName)
    /\ UNCHANGED <<fs, files, bundled, evalVars, syntaxVars>>

\* the import resolver resolves with the source of filePath; bundleFile
\* parses it and fileToSource starts
ImportResolverResolves ==
    /\ status = "running" /\ tasks # <<>>
    /\ Top(tasks).phase = "resolving"
    /\ Top(tasks).filePath \in DOMAIN fs
    /\ tasks' = [tasks EXCEPT ![Len(tasks)] =
                    [@ EXCEPT !.phase = "emitting",
                              !.nodes = ImportsFirst(fs[Top(tasks).filePath]),
                              !.idx = 1]]
    /\ UNCHANGED <<fs, entry, context, files, status, bundled, truncated, evalVars, syntaxVars>>

\* the import resolver rejects (no such file): every awaiting caller up to
\* bundle() rejects in turn; no context is popped
ImportResolverRejects ==
    /\ status = "running" /\ tasks # <<>>
    /\ Top(tasks).phase = "resolving"
    /\ Top(tasks).filePath \notin DOMAIN fs
    /\ tasks' = <<>>
    /\ status' = "rejected"
    /\ UNCHANGED <<fs, entry, context, files, bundled, truncated, evalVars, syntaxVars>>

\* fileToSource reaches an ImportNode (importToSource) or an export-from
\* (exportToSource): handleSourceImport marks the context and calls bundleFile
HandleSourceImport ==
    /\ status = "running" /\ tasks # <<>>
    /\ Top(tasks).phase = "emitting"
    /\ Top(tasks).idx <= Len(Top(tasks).nodes)
    /\ LET node == Top(tasks).nodes[Top(tasks).idx]
           ctx == Top(context)
       IN /\ node.k \in {"Import", "ExportFrom"}
          /\ StartBundleFile(
                [context EXCEPT ![Len(context)].hasImports = TRUE],
                [tasks EXCEPT ![Len(tasks)].phase = "awaiting"],
                ctx.currentDir, node.fromFile)
    /\ UNCHANGED <<fs, entry, files, status, bundled, evalVars, syntaxVars>>

\* fileToSource emits a node that imports nothing: export default, export of
\* a declaration, or any other statement
EmitNode ==
    /\ status = "running" /\ tasks # <<>>
    /\ Top(tasks).phase = "emitting"
    /\ Top(tasks).idx <= Len(Top(tasks).nodes)
    /\ LET node == Top(tasks).nodes[Top(tasks).idx]
           t == Len(tasks)
           c == Len(context)
       IN CASE node.k = "ExportDefault" ->
                \* exportToSource: bundler.setDefaultExport(...), resolve('')
                /\ context' = [context EXCEPT ![c].defaultExport = <<"src", node.defaultValue>>]
                /\ tasks' = [tasks EXCEPT ![t].idx = @ + 1]
            [] node.k = "ExportVarDecl" ->
                \* exportToSource: addExport per name, resolve(varDecl source)
                /\ context' = [context EXCEPT ![c].exports =
                        @ \o [i \in 1..Len(node.varNames) |-> Named(node.varNames[i], "")]]
                /\ tasks' = [tasks EXCEPT ![t].idx = @ + 1,
                        ![t].output = Append(@, Piece("stmt", <<>>, <<>>, node.src))]
            [] node.k = "Other" ->
                /\ context' = context
                /\ tasks' = [tasks EXCEPT ![t].idx = @ + 1,
                        ![t].output = Append(@, Piece("stmt", <<>>, <<>>, node.src))]
            [] OTHER -> FALSE
    /\ UNCHANGED <<fs, entry, files, status, bundled, truncated, evalVars, syntaxVars>>

\* bundleFile after fileToSource: files.push(...), popContext(); the
\* awaiting caller, if any, is resumed
FinishFile ==
    /\ status = "running" /\ tasks # <<>>
    /\ Top(tasks).phase = "emitting"
    /\ Top(tasks).idx > Len(Top(tasks).nodes)
    /\ Len(tasks) > 1 \/ ~truncated
    /\ LET ctx == Top(context)
       IN files' = Append(files,
            [name |-> Top(tasks).filePath,
             hasExports |-> (ctx.defaultExport # NullExport \/ Len(ctx.exports) > 0),
             hasImports |-> ctx.hasImports,
             content |-> Top(tasks).output \o formatExports(ctx)])
    /\ context' = Pop(context)
    /\ tasks' = IF Len(tasks) = 1 THEN <<>>
                ELSE [Pop(tasks) EXCEPT ![Len(tasks) - 1].phase = "returned"]
    /\ UNCHANGED <<fs, entry, status, bundled, truncated, evalVars, syntaxVars>>

\* importToSource, after handleSourceImport resolved with imp
importToSource(node, imp) ==
    IF node.defaultName # ""
    THEN [settled |-> TRUE, out |-> <<Piece("const", <<Named(node.defaultName, "")>>, imp, "")>>]
    ELSE IF node.namespaceName # ""
    THEN [settled |-> TRUE, out |-> <<Piece("const", <<Named(node.namespaceName, "")>>, imp, "")>>]
    ELSE IF node.hasObjects
    THEN [settled |-> TRUE,
          out |-> <<Piece("const{}", node.objects, imp, "")>>
                  \o SelectSeq([i \in 1..Len(node.objects) |->
                                    Piece("alias", <<node.objects[i]>>, <<>>, "")],
                               LAMBDA pc : pc.names[1].alias # "")]
    ELSE [settled |-> FALSE, out |-> <<>>]

\* the continuation of importToSource / exportToSource once the imported
\* file is bundled
ResumeImport ==
    /\ status = "running" /\ tasks # <<>>
    /\ Top(tasks).phase = "returned"
    /\ LET node == Top(tasks).nodes[Top(tasks).idx]
           t == Len(tasks)
           c == Len(context)
           imp == Require(fileNameResolver(Top(context).currentDir, node.fromFile))
       IN IF node.k = "Import"
          THEN LET r == importToSource(node, imp)
               IN /\ context' = context
                  /\ tasks' = IF r.settled
                              THEN [tasks EXCEPT ![t].phase = "emitting",
                                                 ![t].idx = @ + 1,
                                                 ![t].output = @ \o r.out]
                              ELSE [tasks EXCEPT ![t].phase = "pending"]
          ELSE IF node.allExports
               THEN /\ context' = [context EXCEPT ![c].defaultExport = imp]
                    /\ tasks' = [tasks EXCEPT ![t].phase = "emitting", ![t].idx = @ + 1]
               ELSE /\ context' = [context EXCEPT ![c].exports = @ \o node.objects]
                    /\ tasks' = [tasks EXCEPT ![t].phase = "emitting",
                                    ![t].idx = @ + 1,
                                    ![t].output = Append(@, Piece("const{}", node.objects, imp, ""))]
    /\ UNCHANGED <<fs, entry, files, status, bundled, truncated, evalVars, syntaxVars>>

\* bundle() after bundleFile: the skeleton, with the entry name and one
\* module per element of files
BundleResolves ==
    /\ status = "running" /\ tasks = <<>>
    /\ status' = "resolved"
    /\ bundled' = [entryName |-> entry.fileName,
                   modules |-> [i \in 1..Len(files) |-> files[i].name]]
    /\ UNCHANGED <<fs, entry, context, files, tasks, truncated, evalVars, syntaxVars>>

(***************************************************************************)
(* The module graphs the host bundles: three files a, b, c of directory    *)
(* src, each with one of a few sources.                                    *)
(***************************************************************************)
Src == <<"src">>
FileA == <<"src", "a">>
FileB == <<"src", "b">>
FileC == <<"src", "c">>
Rel(name) == <<".", name>>

ImportDefault(name, file) == ImportNode(name, "", FALSE, <<>>, Rel(file))
ImportNamespace(name, file) == ImportNode("", name, FALSE, <<>>, Rel(file))
ImportNamed(objects, file) == ImportNode("", "", TRUE, objects, Rel(file))
ImportBare(file) == ImportNode("", "", FALSE, <<>>, Rel(file))

SourcesA == {
    \* import x from './b'; export default x + 1;
    <<ImportDefault("x", "b"), ExportDefaultNode("x + 1")>>,
    \* import x from './b'; import y from './c'; export default x + y;
    <<ImportDefault("x", "b"), ImportDefault("y", "c"), ExportDefaultNode("x + y")>>,
    \* import { p, q as r } from './b'; p(); import * as ns from './c'; export const k = r;
    <<ImportNamed(<<Named("p", ""), Named("q", "r")>>, "b"), OtherNode("p();"),
      ImportNamespace("ns", "c"), ExportVarDeclNode(<<"k">>, "const k = r;")>>,
    \* import './b'; run();
    <<ImportBare("b"), OtherNode("run();")>>,
    \* export * from './b';
    <<ExportFromNode(TRUE, <<>>, Rel("b"))>>,
    \* export { n as m } from './c'; export const k = 1;
    <<ExportFromNode(FALSE, <<Named("n", "m")>>, Rel("c")),
      ExportVarDeclNode(<<"k">>, "const k = 1;")>>,
    \* import z from './zz';
    <<ImportDefault("z", "zz")>>,
    \* import x from './c'; import * as y from './c'; go(x, y);
    <<ImportDefault("x", "c"), ImportNamespace("y", "c"), OtherNode("go(x, y);")>> }

SourcesB == {
    \* export default 41;
    <<ExportDefaultNode("41")>>,
    \* import y from './c'; export default y;
    <<ImportDefault("y", "c"), ExportDefaultNode("y")>>,
    \* import x from './a'; export default 1;
    <<ImportDefault("x", "a"), ExportDefaultNode("1")>>,
    \* import './c'; export const p = 1; export const q = 2;
    <<ImportBare("c"), ExportVarDeclNode(<<"p">>, "const p = 1;"),
      ExportVarDeclNode(<<"q">>, "const q = 2;")>> }

SourcesC == {
    \* export default 1; export const n = 2;
    <<ExportDefaultNode("1"), ExportVarDeclNode(<<"n">>, "const n = 2;")>>,
    \* init();
    <<OtherNode("init();")>>,
    \* import x from './b'; export default x;
    <<ImportDefault("x", "b"), ExportDefaultNode("x")>> }

FileSystems ==
    {[f \in {FileA, FileB, FileC} |->
        IF f = FileA THEN sa ELSE IF f = FileB THEN sb ELSE sc] :
     sa \in SourcesA, sb \in SourcesB, sc \in SourcesC}

\* the ways the host names the entry module a of directory src
Entries == {[currentDir |-> Src, fileName |-> <<"a">>],
            [currentDir |-> <<>>, fileName |-> <<"src", "a">>]}

\* a Runtime that is never used
RuntimeIdle == RuntimeNew

InitBundle ==
    /\ RuntimeIdle
    /\ SyntaxIdle
    /\ fs \in FileSystems
    /\ entry = [currentDir |-> <<>>, fileName |-> <<>>]
    /\ context = <<>>
    /\ files = <<>>
    /\ tasks = <<>>
    /\ status = "idle"
    /\ bundled = [entryName |-> <<>>, modules |-> <<>>]
    /\ truncated = FALSE

NextBundle ==
    \/ \E e \in Entries : Bundle(e.currentDir, e.fileName)
    \/ ImportResolverResolves
    \/ ImportResolverRejects
    \/ HandleSourceImport
    \/ EmitNode
    \/ FinishFile
    \/ ResumeImport
    \/ BundleResolves

SpecBundle == InitBundle /\ [][NextBundle]_vars

\* the resolver callbacks always settle and every continuation that is ready
\* runs; the host need not call bundle()
FairSpecBundle ==
    /\ SpecBundle
    /\ WF_vars(ImportResolverResolves)
    /\ WF_vars(ImportResolverRejects)
    /\ WF_vars(HandleSourceImport)
    /\ WF_vars(EmitNode)
    /\ WF_vars(FinishFile)
    /\ WF_vars(ResumeImport)
    /\ WF_vars(BundleResolves)

(***************************************************************************)
(* The import graph of a file system.                                      *)
(***************************************************************************)
\* the canonical names of the files that file f imports or re-exports
ImportsOf(f) ==
    IF f \notin DOMAIN fs THEN {}
    ELSE {fileNameResolver(PathJoin(SubSeq(f, 1, Len(f) - 1), PathDirname(fs[f][i].fromFile)),
                           PathBasename(fs[f][i].fromFile)) :
            i \in {j \in 1..Len(fs[f]) : fs[f][j].k \in {"Import", "ExportFrom"}}}

RECURSIVE ReachFrom(_, _)
ReachFrom(S, n) ==
    IF n = 0 THEN S
    ELSE ReachFrom(S \cup UNION {ImportsOf(f) : f \in S}, n - 1)

\* the files reachable from f by one or more imports
ImportedBy(f) == ReachFrom(ImportsOf(f), Cardinality(DOMAIN fs))
Reachable == {FileA} \cup ImportedBy(FileA)
HasCycle == \E f \in Reachable : f \in ImportedBy(f)
HasBareImport ==
    \E f \in Reachable \cap DOMAIN fs : \E i \in 1..Len(fs[f]) :
        /\ fs[f][i].k = "Import"
        /\ fs[f][i].defaultName = "" /\ fs[f][i].namespaceName = ""
        /\ ~fs[f][i].hasObjects
HasMissingFile == \E f \in Reachable : f \notin DOMAIN fs
Settled == status \in {"resolved", "rejected"}

(***************************************************************************)
(* The Lexer (lexer.ts).  A text is the sequence of its characters, each a *)
(* string of length one; positions are zero-based as in the code, so the   *)
(* character at position p of input is input[p + 1].  A token is a record  *)
(* [type, value, position]; NoToken stands for null / undefined.  An       *)
(* operation returns [lx, k, v]: the lexer it leaves, whether it returned  *)
(* or threw, and the token returned or the error thrown.                   *)
(***************************************************************************)
AlphaChars == {
    "a", "b", "c", "d", "e", "f", "g", "h", "i", "j", "k", "l", "m",
    "n", "o", "p", "q", "r", "s", "t", "u", "v", "w", "x", "y", "z",
    "A", "B", "C", "D", "E", "F", "G", "H", "I", "J", "K", "L", "M",
    "N", "O", "P", "Q", "R", "S", "T", "U", "V", "W", "X", "Y", "Z", "_"}
DigitChars == <<"0", "1", "2", "3", "4", "5", "6", "7", "8", "9">>

isAlpha(cur) == cur \in AlphaChars
isDigit(cur) == \E d \in 1..10 : DigitChars[d] = cur
isWhite(cur) == cur \in {" ", "\t", "\n"}

\* the character U+0060 (a TLA+ string cannot hold it)
Backtick == "backtick"

\* const symbols
symbols == <<
    <<"=", ">">>, <<".", ".", ".">>, <<Backtick>>, <<"$", "{">>, <<"<", "/">>,
    <<"/", ">">>, <<"<">>, <<">">>, <<"(">>, <<")">>, <<"[">>, <<"]">>,
    <<"{">>, <<"}">>, <<",">>, <<".">>, <<"?">>, <<":">>, <<";">> >>

\* const operators
operators == <<
    <<"+", "=">>, <<"-", "=">>, <<"*", "=">>, <<"/", "=">>, <<"+", "+">>,
    <<"-", "-">>, <<"&", "&">>, <<"|", "|">>, <<"=", "=", "=">>,
    <<"=", "=">>, <<"=">>, <<"!", "=", "=">>, <<"!", "=">>, <<">", "=">>,
    <<"<", "=">>, <<"+">>, <<"-">>, <<"*">>, <<"/">>, <<"!">> >>

\* const keywords
keywords == {"const", "let", "return", "new", "if", "else", "while", "try",
             "catch", "finally", "throw", "typeof", "export", "default",
             "expose", "import", "from", "as"}

\* const keywordValues: the keys, and the value of each (the token of
\* `undefined` gets the text itself, createToken's override being undefined)
\* (`curToken in keywordValues` holds for the properties the object
\* inherits from Object.prototype too; their values are host functions)
ObjectPrototypeNames == {"constructor", "hasOwnProperty", "isPrototypeOf",
                         "propertyIsEnumerable", "toLocaleString", "toString",
                         "valueOf", "__proto__", "__defineGetter__",
                         "__defineSetter__", "__lookupGetter__", "__lookupSetter__"}
keywordValueNames == {"true", "false", "null", "undefined"} \cup ObjectPrototypeNames
keywordValues(name) ==
    CASE name = "true"  -> <<"bool", TRUE>>
      [] name = "false" -> <<"bool", FALSE>>
      [] name = "null"  -> <<"null", 0>>
      [] name = "undefined" -> Str(name)
      [] OTHER          -> <<"host", name>>

\* the string made of the characters of a text
RECURSIVE Join(_)
Join(text) == IF text = <<>> THEN "" ELSE Head(text) \o Join(Tail(text))

\* parseInt(text, 10): the value of the leading decimal digits of a text
DigitValue(c) == (CHOOSE d \in 1..10 : DigitChars[d] = c) - 1
RECURSIVE parseInt(_, _)
parseInt(text, acc) ==
    IF text = <<>> \/ ~isDigit(Head(text)) THEN acc
    ELSE parseInt(Tail(text), 10 * acc + DigitValue(Head(text)))

\* the digits of a text after its decimal point, trailing zeros dropped
RECURSIVE DropTrailingZeros(_)
DropTrailingZeros(text) ==
    IF text # <<>> /\ text[Len(text)] = "0"
    THEN DropTrailingZeros(SubSeq(text, 1, Len(text) - 1))
    ELSE text
RECURSIVE AfterPoint(_)
AfterPoint(text) ==
    IF text = <<>> THEN <<>>
    ELSE IF Head(text) = "." THEN Tail(text)
    ELSE AfterPoint(Tail(text))

\* parseFloat of a text `int.frac`: a number with a fraction is the pair of
\* its integer part and the digits of its fraction
parseFloat(text) ==
    IF DropTrailingZeros(AfterPoint(text)) = <<>> THEN Num(parseInt(text, 0))
    ELSE <<"float", <<parseInt(text, 0), Join(DropTrailingZeros(AfterPoint(text)))>>>>

Token(type, value, position) == [type |-> type, value |-> value, position |-> position]
NoToken == Token("", Undef, -1)

\* class ParserError, by its message (without the location text) and position
ParserError(position, message) == <<"parseError", message, position>>

Returned(lx, v) == [lx |-> lx, k |-> "normal", v |-> v]
Failed(lx, e) == [lx |-> lx, k |-> "throw", v |-> e]

\* new Lexer(input): this.input = input + ' '
NewLexer(input) ==
    [input |-> input \o <<" ">>, lastPeekedToken |-> NoToken,
     currentPosition |-> 0, lastPosition |-> 0]

\* this.input[p]; "" stands for undefined (p beyond the input)
charAt(lx, p) == IF p >= 0 /\ p < Len(lx.input) THEN lx.input[p + 1] ELSE ""

\* lexer.getLineAndColumnFromPosition, the for loop from i
RECURSIVE LineAndColumnLoop(_, _, _, _, _)
LineAndColumnLoop(lx, position, i, line, column) ==
    IF i >= position THEN [line |-> line, column |-> column]
    ELSE IF charAt(lx, i) = "\n"
         THEN LineAndColumnLoop(lx, position, i + 1, line + 1, 1)
         ELSE LineAndColumnLoop(lx, position, i + 1, line, column + 1)

\* a count of lines whose column goes on over the newlines
RECURSIVE LineAndColumnLoopKeepingColumn(_, _, _, _, _)
LineAndColumnLoopKeepingColumn(lx, position, i, line, column) ==
    IF i >= position THEN [line |-> line, column |-> column]
    ELSE IF charAt(lx, i) = "\n"
         THEN LineAndColumnLoopKeepingColumn(lx, position, i + 1, line + 1, column + 1)
         ELSE LineAndColumnLoopKeepingColumn(lx, position, i + 1, line, column + 1)
getLineAndColumnKeepingColumn(lx, position) ==
    LineAndColumnLoopKeepingColumn(lx, position, 0, 1, 1)

\* lexer.getLineAndColumnFromPosition
getLineAndColumnFromPosition(lx, position) ==
    LineAndColumnLoop(lx, position, 0, 1, 1)

\* symbol.startsWith(prefix)
startsWith(symbol, prefix) ==
    Len(prefix) <= Len(symbol) /\ SubSeq(symbol, 1, Len(prefix)) = prefix

\* nextWithComments.createSymbol, the while loop
RECURSIVE createSymbolLoop(_, _, _)
createSymbolLoop(lx, valid, curToken) ==
    LET cur == charAt(lx, lx.currentPosition)
        filtered == SelectSeq(valid,
                        LAMBDA symbol : startsWith(symbol, Append(curToken, cur)))
    IN IF /\ Len(valid) >= 1
          /\ lx.currentPosition < Len(lx.input)
          /\ ~isWhite(cur)
          /\ Len(filtered) > 0
       THEN createSymbolLoop([lx EXCEPT !.currentPosition = @ + 1],
                             filtered, Append(curToken, cur))
       ELSE [lx |-> lx, valid |-> valid, curToken |-> curToken]

\* nextWithComments.createSymbol; overrideType "" is an absent argument
createSymbol(lx, symbolList, overrideType) ==
    With(createSymbolLoop(lx, symbolList, <<>>), LAMBDA r :
        IF \E i \in 1..Len(r.valid) : r.valid[i] = r.curToken
        THEN Returned(r.lx,
                Token(IF overrideType # "" THEN overrideType ELSE Join(r.curToken),
                      Str(Join(r.curToken)), lx.currentPosition))
        ELSE Failed(r.lx, ParserError(lx.currentPosition, "Unrecognised token")))

\* nextWithComments.createSingleLineComment
RECURSIVE createSingleLineComment(_, _, _)
createSingleLineComment(lx, position, comment) ==
    IF lx.currentPosition < Len(lx.input) /\ charAt(lx, lx.currentPosition) # "\n"
    THEN createSingleLineComment([lx EXCEPT !.currentPosition = @ + 1], position,
                                 Append(comment, charAt(lx, lx.currentPosition)))
    ELSE Returned(lx, Token("singleComment", Str(Join(comment)), position))

\* nextWithComments.createMultiLineComment
RECURSIVE createMultiLineComment(_, _)
createMultiLineComment(lx, position) ==
    IF lx.currentPosition >= Len(lx.input)
    THEN Failed(lx, ParserError(lx.currentPosition, "Unclosed comment"))
    ELSE IF /\ charAt(lx, lx.currentPosition) = "*"
            /\ lx.currentPosition < Len(lx.input) - 1
            /\ charAt(lx, lx.currentPosition + 1) = "/"
         THEN Returned([lx EXCEPT !.currentPosition = @ + 2],
                       Token("multiComment", Str(""), position))
         ELSE createMultiLineComment([lx EXCEPT !.currentPosition = @ + 1], position)

\* nextWithComments, the token of an identifier that ended
identifierToken(curToken, start) ==
    IF Join(curToken) \in keywordValueNames
    THEN Token(Join(curToken), keywordValues(Join(curToken)), start)
    ELSE IF Join(curToken) \in keywords
         THEN Token(Join(curToken), Str(Join(curToken)), start)
         ELSE Token("identifier", Str(Join(curToken)), start)

\* nextWithComments, case null of the switch: which branch of its if-else
\* chain the character cur, followed by next, takes
startOfToken(lx, cur, next) ==
    IF cur = "/" /\ next = "/" THEN "singleComment"
    ELSE IF cur = "/" /\ next = "*" THEN "multiComment"
    ELSE IF isAlpha(cur) THEN "identifier"
    ELSE IF isDigit(cur) THEN "integer"
    ELSE IF cur = "="
         THEN IF charAt(lx, lx.currentPosition + 1) = ">" THEN "=>" ELSE "operator"
    ELSE IF \E i \in 1..Len(symbols) : symbols[i][1] = cur THEN "symbol"
    ELSE IF \E i \in 1..Len(operators) : operators[i][1] = cur THEN "operator"
    ELSE IF cur = "'" THEN "stringSingleQuote"
    ELSE IF cur = "\"" THEN "stringDoubleQuote"
    ELSE IF ~isWhite(cur) THEN "invalid"
    ELSE "white"

\* nextWithComments, the for loop: type "" is null, curToken the characters
\* gathered and start the position of the token
RECURSIVE nextWithCommentsLoop(_, _, _, _)
nextWithCommentsLoop(lx, type, curToken, start) ==
    IF lx.currentPosition >= Len(lx.input) THEN Returned(lx, NoToken)
    ELSE
    LET p == lx.currentPosition
        cur == charAt(lx, p)
        next == IF p < Len(lx.input) - 1 THEN charAt(lx, p + 1) ELSE ""
        \* the end of the loop body with type t: curToken += cur, and on
        Continue(t, inString) ==
            nextWithCommentsLoop([lx EXCEPT !.currentPosition = p + 1], t,
                IF inString \/ ~isWhite(cur) THEN Append(curToken, cur) ELSE curToken,
                IF type = "" /\ t # "" THEN p ELSE start)
        string == Token("string", Str(Join(SubSeq(curToken, 2, Len(curToken)))), start)
        branch == IF type = "" THEN startOfToken(lx, cur, next) ELSE type
    IN CASE type = "" /\ branch = "singleComment" -> createSingleLineComment(lx, p, <<>>)
         [] type = "" /\ branch = "multiComment" -> createMultiLineComment(lx, p)
         [] type = "" /\ branch = "=>" ->
            Returned([lx EXCEPT !.currentPosition = p + 2],
                     Token("=>", Str(Join(curToken)), p))
         [] type = "" /\ branch = "symbol" -> createSymbol(lx, symbols, "")
         [] type = "" /\ branch = "operator" -> createSymbol(lx, operators, "operator")
         [] type = "" /\ branch = "invalid" ->
            Failed(lx, ParserError(p, "Invalid character"))
         [] type = "" /\ branch = "white" -> Continue("", FALSE)
         [] type = "" /\ branch \in {"identifier", "integer", "stringSingleQuote",
                                    "stringDoubleQuote"} -> Continue(branch, FALSE)
         [] type = "identifier" /\ ~isAlpha(cur) /\ ~isDigit(cur) ->
            Returned(lx, identifierToken(curToken, start))
         [] type = "identifier" /\ (isAlpha(cur) \/ isDigit(cur)) -> Continue(type, FALSE)
         [] type = "integer" /\ cur = "." -> Continue("float", FALSE)
         [] type = "integer" /\ cur # "." /\ ~isDigit(cur) ->
            Returned(lx, Token("number", Num(parseInt(curToken, 0)), start))
         [] type = "integer" /\ isDigit(cur) -> Continue(type, FALSE)
         [] type = "float" /\ ~isDigit(cur) ->
            Returned(lx, Token("number", parseFloat(curToken), start))
         [] type = "float" /\ isDigit(cur) -> Continue(type, FALSE)
         \* a case without a break: it falls through to stringDoubleQuote
         [] type = "stringSingleQuote" /\ (cur = "'" \/ cur = "\"") ->
            Returned([lx EXCEPT !.currentPosition = p + 1], string)
         [] type = "stringSingleQuote" /\ cur # "'" /\ cur # "\"" -> Continue(type, TRUE)
         [] type = "stringDoubleQuote" /\ cur = "\"" ->
            Returned([lx EXCEPT !.currentPosition = p + 1], string)
         [] type = "stringDoubleQuote" /\ cur # "\"" -> Continue(type, TRUE)

\* lexer.nextWithComments
nextWithComments(lx) ==
    nextWithCommentsLoop([lx EXCEPT !.lastPosition = lx.currentPosition], "", <<>>, -1)

\* lexer.next: the next token that is no comment
RECURSIVE next(_)
next(lx) ==
    With(nextWithComments(lx), LAMBDA r :
        IF r.k = "normal" /\ r.v.type \in {"singleComment", "multiComment"}
        THEN next(r.lx)
        ELSE r)

\* lexer.peek(type); type "" is an absent argument
peek(lx, type) ==
    With(IF lx.lastPeekedToken = NoToken THEN next(lx) ELSE Returned(lx, lx.lastPeekedToken),
         LAMBDA r :
            IF r.k = "throw" THEN r
            ELSE IF type # "" /\ (r.v = NoToken \/ r.v.type # type)
                 THEN Returned([r.lx EXCEPT !.lastPeekedToken = r.v], NoToken)
                 ELSE Returned([r.lx EXCEPT !.lastPeekedToken = r.v], r.v))

\* lexer.peekOperator(opType)
peekOperator(lx, opType) ==
    With(peek(lx, "operator"), LAMBDA r :
        IF r.k = "throw" THEN r
        ELSE IF r.v # NoToken /\ r.v.value = Str(opType) THEN r
        ELSE Returned(r.lx, NoToken))

\* a consume that leaves lastPeekedToken in place
consumeKeepingPeeked(lx, type) ==
    With(IF lx.lastPeekedToken = NoToken THEN next(lx) ELSE Returned(lx, lx.lastPeekedToken),
         LAMBDA r :
            IF r.k = "throw" THEN r
            ELSE IF type # "" /\ (r.v = NoToken \/ r.v.type # type)
                 THEN Failed(r.lx, ParserError(IF r.v # NoToken THEN r.v.position
                                               ELSE r.lx.currentPosition, "Expected"))
                 ELSE Returned(r.lx, r.v))

\* lexer.consume(type); type "" is an absent argument
consume(lx, type) ==
    With(IF lx.lastPeekedToken = NoToken THEN next(lx) ELSE Returned(lx, lx.lastPeekedToken),
         LAMBDA r :
            IF r.k = "throw" THEN r
            ELSE IF type # "" /\ (r.v = NoToken \/ r.v.type # type)
                 THEN Failed([r.lx EXCEPT !.lastPeekedToken = NoToken],
                             ParserError(IF r.v # NoToken THEN r.v.position
                                         ELSE r.lx.currentPosition, "Expected"))
                 ELSE Returned([r.lx EXCEPT !.lastPeekedToken = NoToken], r.v))

\* a revert that keeps the token peeked last
revertKeepingPeeked(lx, position) ==
    [lx EXCEPT !.currentPosition = position]

\* lexer.revert(position)
revert(lx, position) ==
    [lx EXCEPT !.lastPeekedToken = NoToken, !.currentPosition = position]

(***************************************************************************)
(* The host of a Lexer (SpecLex): it constructs a Lexer over an input text *)
(* and calls peek, consume, revert and getLineAndColumnFromPosition on it. *)
(***************************************************************************)
\* the input texts, character by character
LexInputs == <<
    \* 1: x += y
    <<"x", " ", "+", "=", " ", "y">>,
    \* 2: x -= y
    <<"x", " ", "-", "=", " ", "y">>,
    \* 3: x *= y
    <<"x", " ", "*", "=", " ", "y">>,
    \* 4: x /= y
    <<"x", " ", "/", "=", " ", "y">>,
    \* 5: x ++ y
    <<"x", " ", "+", "+", " ", "y">>,
    \* 6: x -- y
    <<"x", " ", "-", "-", " ", "y">>,
    \* 7: x && y
    <<"x", " ", "&", "&", " ", "y">>,
    \* 8: x || y
    <<"x", " ", "|", "|", " ", "y">>,
    \* 9: x === y
    <<"x", " ", "=", "=", "=", " ", "y">>,
    \* 10: x == y
    <<"x", " ", "=", "=", " ", "y">>,
    \* 11: x = y
    <<"x", " ", "=", " ", "y">>,
    \* 12: x !== y
    <<"x", " ", "!", "=", "=", " ", "y">>,
    \* 13: x != y
    <<"x", " ", "!", "=", " ", "y">>,
    \* 14: x >= y
    <<"x", " ", ">", "=", " ", "y">>,
    \* 15: x <= y
    <<"x", " ", "<", "=", " ", "y">>,
    \* 16: x + y
    <<"x", " ", "+", " ", "y">>,
    \* 17: x - y
    <<"x", " ", "-", " ", "y">>,
    \* 18: x * y
    <<"x", " ", "*", " ", "y">>,
    \* 19: x / y
    <<"x", " ", "/", " ", "y">>,
    \* 20: x ! y
    <<"x", " ", "!", " ", "y">>,
    \* 21: a\n\nbc\nd
    <<"a", "\n", "\n", "b", "c", "\n", "d">>,
    \* 22: a // c\n b
    <<"a", " ", "/", "/", " ", "c", "\n", " ", "b">>,
    \* 23: a /* c */ b
    <<"a", " ", "/", "*", " ", "c", " ", "*", "/", " ", "b">>,
    \* 24: 's' "t"
    <<"'", "s", "'", " ", "\"", "t", "\"">>,
    \* 25: 12 3.50
    <<"1", "2", " ", "3", ".", "5", "0">>,
    \* 26: a # b
    <<"a", " ", "#", " ", "b">>,
    \* 27: (a) => {b;}
    <<"(", "a", ")", " ", "=", ">", " ", "{", "b", ";", "}">>,
    \* 28: a<=b
    <<"a", "<", "=", "b">>,
    \* 29: i++;
    <<"i", "+", "+", ";">>,
    \* 30: true\n\tnull
    <<"t", "r", "u", "e", "\n", "\t", "n", "u", "l", "l">>,
    \* 31: toString x1
    <<"t", "o", "S", "t", "r", "i", "n", "g", " ", "x", "1">>,
    \* 32: a constructor valueOf
    <<"a", " ", "c", "o", "n", "s", "t", "r", "u", "c", "t", "o", "r", " ", "v",
      "a", "l", "u", "e", "O", "f">>,
    \* 33: "c'd e" 'a"b'
    <<"\"", "c", "'", "d", " ", "e", "\"", " ", "'", "a", "\"", "b", "'">> >>

\* the token kinds the host asks for; "" is a call without argument
LexTypes == {"", "operator", "identifier", "integer", ";", "<"}

\* what the host saw of one call: the call, its argument, how it ended, the
\* token it returned, the position the scan started from (-1 when the token
\* came from lastPeekedToken) and, for a position query, the answer
NoLexObs ==
    [op |-> "", type |-> "", k |-> "normal", token |-> NoToken, from |-> -1,
     position |-> -1, line |-> 0, column |-> 0]

\* new Lexer(input)
InitLex ==
    /\ RuntimeIdle
    /\ BundlerIdle
    /\ ParserIdle
    /\ \E i \in 1..Len(LexInputs) : lexer = NewLexer(LexInputs[i])
    /\ lexLast = [cur |-> NoLexObs, prev |-> NoLexObs]

\* the position the next scan starts from
ScanFrom == IF lexer.lastPeekedToken = NoToken THEN lexer.currentPosition ELSE -1

\* the host takes the outcome r of a call
LexStep(op, type, from, r) ==
    /\ lexer' = r.lx
    /\ lexLast' = [cur |-> [NoLexObs EXCEPT !.op = op, !.type = type, !.k = r.k,
                                !.token = IF r.k = "normal" THEN r.v ELSE NoToken,
                                !.from = from],
                   prev |-> lexLast.cur]
    /\ UNCHANGED <<evalVars, bundleVars, parseVars>>

\* lexer.peek(type)
Peek(type) == LexStep("peek", type, ScanFrom, peek(lexer, type))

\* lexer.consume(type)
Consume(type) == LexStep("consume", type, ScanFrom, consume(lexer, type))

\* lexer.revert(lexer.getLastPosition())
Revert ==
    LexStep("revert", "", -1, Returned(revert(lexer, lexer.lastPosition), NoToken))

\* lexer.getLineAndColumnFromPosition(position)
GetLineAndColumn(position) ==
    /\ lexLast' = [cur |-> [NoLexObs EXCEPT
                        !.op = "getLineAndColumn", !.position = position,
                        !.line = getLineAndColumnFromPosition(lexer, position).line,
                        !.column = getLineAndColumnFromPosition(lexer, position).column],
                   prev |-> lexLast.cur]
    /\ UNCHANGED <<lexer, evalVars, bundleVars, parseVars>>

NextLex ==
    \/ \E type \in LexTypes : Peek(type)
    \/ \E type \in LexTypes : Consume(type)
    \/ Revert
    \/ \E position \in 0..(Len(lexer.input) - 1) : GetLineAndColumn(position)

SpecLex == InitLex /\ [][NextLex]_vars

(***************************************************************************)
(* The Parser (parser.ts).  Every rule is an operator of the parser's      *)
(* state ps (its Lexer and its blockDepth) that gives the state the rule   *)
(* leaves, whether it returned or threw, and the node returned or the      *)
(* error thrown.  The rules call one another through parseRule.            *)
(***************************************************************************)
\* new Parser(input)
\* (backtracks is the record of the times parsePrimary gave up a primary for
\* a function: see backtrack)
NewParser(input) == [lexer |-> NewLexer(input), blockDepth |-> 0, backtracks |-> <<>>]
Parsed(ps, v) == [ps |-> ps, k |-> "normal", v |-> v]
ParseFailed(ps, e) == [ps |-> ps, k |-> "throw", v |-> e]

\* the computation K continued with the outcome r, unless r is a throw
Then(r, K(_)) == IF r.k = "throw" THEN r ELSE K(r)

\* a rule of the grammar that the model leaves out (object literals, HTML,
\* template strings): no program text of the model gets there
Beyond(ps, rule) == ParseFailed(ps, <<"beyond", rule, 0>>)
IsBeyond(r) == r.k = "throw" /\ r.v[1] = "beyond"

\* the text of a string value
TextOf(v) == v[2]

\* the rules and the calls on this.lexer are reached by name, through parseRule
RECURSIVE parseRule(_, _, _)

\* the calls on this.lexer
OfLexer(ps, r) == [k |-> r.k, v |-> r.v, ps |-> [ps EXCEPT !.lexer = r.lx]]
lexerPeek(ps, type) == parseRule("lexer.peek", type, ps)
lexerPeekOperator(ps, opType) == parseRule("lexer.peekOperator", opType, ps)
lexerConsume(ps, type) == parseRule("lexer.consume", type, ps)
lexerRevert(ps, position) == [ps EXCEPT !.lexer = revert(ps.lexer, position)]

\* parsePrimary gives up the primary: this.lexer.revert(position), in the
\* state ps that the attempt left.  p is the outcome of the peek() that
\* parsePrimary begins with.  The state the function parse starts in is
\* recorded with the first token of the primary, the blockDepth parsePrimary
\* was entered with, and whether the primary failed or '=>' followed it
backtrack(ps, p, failed) ==
    [lexerRevert(ps, p.ps.lexer.lastPosition) EXCEPT !.backtracks =
        Append(@, [position |-> p.ps.lexer.lastPosition,
                   first |-> p.v,
                   failed |-> failed,
                   lexer |-> lexerRevert(ps, p.ps.lexer.lastPosition).lexer,
                   blockDepth |-> ps.blockDepth,
                   enteredDepth |-> p.ps.blockDepth])]


\* parseImport.parseImportObject
parseImportObject(ps, objects) ==
    Then(lexerConsume(ps, "identifier"), LAMBDA name :
    Then(lexerPeek(name.ps, "as"), LAMBDA as :
        IF as.v # NoToken
        THEN Then(lexerConsume(as.ps, ""), LAMBDA c :
             Then(lexerConsume(c.ps, "identifier"), LAMBDA alias :
                Parsed(alias.ps, Append(objects,
                    Named(TextOf(name.v.value), TextOf(alias.v.value))))))
        ELSE Parsed(as.ps, Append(objects, Named(TextOf(name.v.value), "")))))

\* parseImport, the loop over the objects after the first
RECURSIVE parseImportObjects(_, _)
parseImportObjects(ps, objects) ==
    Then(lexerPeek(ps, ","), LAMBDA comma :
        IF comma.v # NoToken
        THEN Then(lexerConsume(comma.ps, ""), LAMBDA c :
             Then(parseImportObject(c.ps, objects), LAMBDA o :
                parseImportObjects(o.ps, o.v)))
        ELSE Parsed(comma.ps, objects))

\* parseImport, the end of every form: from 'file' (withFrom) or 'file'
parseFromFile(ps, withFrom, node) ==
    Then(IF withFrom THEN lexerConsume(ps, "from") ELSE Parsed(ps, NoToken), LAMBDA f :
    Then(lexerConsume(f.ps, "string"), LAMBDA file :
        Parsed(file.ps, [node EXCEPT !.fromFile = TextOf(file.v.value)])))

\* parseImport
parseImport(ps) ==
    IF ps.blockDepth > 0
    THEN ParseFailed(ps, ParserError(ps.lexer.lastPosition, "Imports must be top level"))
    ELSE
    Then(lexerConsume(ps, "import"), LAMBDA i :
    Then(lexerPeek(i.ps, "{"), LAMBDA brace :
        IF brace.v # NoToken
        THEN Then(lexerConsume(brace.ps, ""), LAMBDA c :
             Then(lexerPeek(c.ps, "}"), LAMBDA close :
             Then(IF close.v = NoToken
                  THEN Then(parseImportObject(close.ps, <<>>), LAMBDA o :
                            parseImportObjects(o.ps, o.v))
                  ELSE Parsed(close.ps, <<>>), LAMBDA objects :
             Then(lexerConsume(objects.ps, "}"), LAMBDA e :
                parseFromFile(e.ps, TRUE, ImportNode("", "", TRUE, objects.v, ""))))))
        ELSE
        Then(lexerPeekOperator(brace.ps, "*"), LAMBDA star :
            IF star.v # NoToken
            THEN Then(lexerConsume(star.ps, ""), LAMBDA c :
                 Then(lexerConsume(c.ps, "as"), LAMBDA as :
                 Then(lexerConsume(as.ps, "identifier"), LAMBDA name :
                    parseFromFile(name.ps, TRUE,
                        ImportNode("", TextOf(name.v.value), FALSE, <<>>, "")))))
            ELSE
            Then(lexerPeek(star.ps, "identifier"), LAMBDA ident :
                IF ident.v # NoToken
                THEN Then(lexerConsume(ident.ps, "identifier"), LAMBDA name :
                        parseFromFile(name.ps, TRUE,
                            ImportNode(TextOf(name.v.value), "", FALSE, <<>>, "")))
                ELSE parseFromFile(ident.ps, FALSE,
                        ImportNode("", "", FALSE, <<>>, ""))))))

\* parseExport.parseNamedExport; a defaultObject has the name "default"
parseNamedExport(ps, namedExports) ==
    Then(lexerPeek(ps, "default"), LAMBDA def :
        IF def.v # NoToken
        THEN Then(lexerConsume(def.ps, ""), LAMBDA c :
             Then(lexerConsume(c.ps, "as"), LAMBDA as :
             Then(lexerConsume(as.ps, "identifier"), LAMBDA alias :
                Parsed(alias.ps, Append(namedExports,
                    Named("default", TextOf(alias.v.value)))))))
        ELSE parseImportObject(def.ps, namedExports))

\* parseExport, the loop over the named exports after the first
RECURSIVE parseNamedExports(_, _)
parseNamedExports(ps, namedExports) ==
    Then(lexerPeek(ps, ","), LAMBDA comma :
        IF comma.v # NoToken
        THEN Then(lexerConsume(comma.ps, ""), LAMBDA c :
             Then(parseNamedExport(c.ps, namedExports), LAMBDA o :
                parseNamedExports(o.ps, o.v)))
        ELSE Parsed(comma.ps, namedExports))

\* the fromFile of an ExportNode
FromFile(allExports, namedExports, fileName) ==
    [allExports |-> allExports, namedExports |-> namedExports, fileName |-> fileName]

\* parseExport, the end of both `from` forms
parseExportFrom(ps, allExports, namedExports) ==
    Then(lexerConsume(ps, "from"), LAMBDA f :
    Then(lexerConsume(f.ps, "string"), LAMBDA file :
        Parsed(file.ps, ExportNode(None, None,
            FromFile(allExports, namedExports, TextOf(file.v.value))))))

\* parseExport
parseExport(ps) ==
    IF ps.blockDepth > 0
    THEN ParseFailed(ps, ParserError(ps.lexer.lastPosition, "Exports must be top level"))
    ELSE
    Then(lexerConsume(ps, "export"), LAMBDA x :
    Then(lexerPeek(x.ps, "default"), LAMBDA def :
        IF def.v # NoToken
        THEN Then(lexerConsume(def.ps, ""), LAMBDA c :
             Then(parseRule("parseExpression", "", c.ps), LAMBDA value :
             Then(lexerConsume(value.ps, ";"), LAMBDA semi :
                Parsed(semi.ps, ExportNode(value.v, None, None)))))
        ELSE
        Then(lexerPeek(def.ps, "{"), LAMBDA brace :
            IF brace.v # NoToken
            THEN Then(lexerConsume(brace.ps, ""), LAMBDA c :
                 Then(lexerPeek(c.ps, "}"), LAMBDA close :
                 Then(IF close.v = NoToken
                      THEN Then(parseNamedExport(close.ps, <<>>), LAMBDA o :
                                parseNamedExports(o.ps, o.v))
                      ELSE Parsed(close.ps, <<>>), LAMBDA named :
                 Then(lexerConsume(named.ps, "}"), LAMBDA e :
                    parseExportFrom(e.ps, FALSE, named.v)))))
            ELSE
            Then(lexerPeekOperator(brace.ps, "*"), LAMBDA star :
                IF star.v # NoToken
                THEN Then(lexerConsume(star.ps, ""), LAMBDA c :
                        parseExportFrom(c.ps, TRUE, <<>>))
                ELSE
                Then(lexerPeek(star.ps, "const"), LAMBDA const :
                Then(parseRule(IF const.v # NoToken THEN "parseVarDecl(true)"
                               ELSE "parseVarDecl(false)", "", const.ps), LAMBDA decl :
                    Parsed(decl.ps, ExportNode(None, decl.v, None))))))))

\* parseWhile
parseWhile(ps) ==
    Then(lexerConsume(ps, "while"), LAMBDA w :
    Then(lexerConsume(w.ps, "("), LAMBDA open :
    Then(parseRule("parseExpression", "", open.ps), LAMBDA condition :
    Then(lexerConsume(condition.ps, ")"), LAMBDA close :
    Then(parseRule("parseStatement", "", close.ps), LAMBDA loop :
        Parsed(loop.ps, WhileNode(condition.v, loop.v)))))))

\* parseIf
parseIf(ps) ==
    Then(lexerConsume(ps, "if"), LAMBDA i :
    Then(lexerConsume(i.ps, "("), LAMBDA open :
    Then(parseRule("parseExpression", "", open.ps), LAMBDA condition :
    Then(lexerConsume(condition.ps, ")"), LAMBDA close :
    Then(parseRule("parseStatement", "", close.ps), LAMBDA thenStatement :
    Then(lexerPeek(thenStatement.ps, "else"), LAMBDA else :
        IF else.v # NoToken
        THEN Then(lexerConsume(else.ps, ""), LAMBDA c :
             Then(parseRule("parseStatement", "", c.ps), LAMBDA elseStatement :
                Parsed(elseStatement.ps,
                       IfNode(condition.v, thenStatement.v, elseStatement.v))))
        ELSE Parsed(else.ps, IfNode(condition.v, thenStatement.v, None))))))))

\* parseTryCatch, the optional (name) after catch
parseCatchErrorName(ps) ==
    Then(lexerPeek(ps, "("), LAMBDA open :
        IF open.v # NoToken
        THEN Then(lexerConsume(open.ps, "("), LAMBDA c :
             Then(lexerConsume(c.ps, "identifier"), LAMBDA name :
             Then(lexerConsume(name.ps, ")"), LAMBDA close :
                Parsed(close.ps, TextOf(name.v.value)))))
        ELSE Parsed(open.ps, ""))

\* parseTryCatch
parseTryCatch(ps) ==
    Then(lexerConsume(ps, "try"), LAMBDA t :
    Then(parseRule("parseBlock", "", t.ps), LAMBDA tryBlock :
    Then(lexerConsume(tryBlock.ps, "catch"), LAMBDA c :
    Then(parseCatchErrorName(c.ps), LAMBDA catchErrorName :
    Then(parseRule("parseBlock", "", catchErrorName.ps), LAMBDA catchBlock :
    Then(lexerPeek(catchBlock.ps, "finally"), LAMBDA finally :
        IF finally.v # NoToken
        THEN Then(lexerConsume(finally.ps, "finally"), LAMBDA f :
             Then(parseRule("parseBlock", "", f.ps), LAMBDA finallyBlock :
                Parsed(finallyBlock.ps,
                       TryCatchNode(tryBlock.v, catchErrorName.v, catchBlock.v,
                                    finallyBlock.v))))
        ELSE Parsed(finally.ps,
                    TryCatchNode(tryBlock.v, catchErrorName.v, catchBlock.v, None))))))))

\* parseThrow: the expression only, no ';' is consumed
parseThrow(ps) ==
    Then(lexerConsume(ps, "throw"), LAMBDA t :
    Then(parseRule("parseExpression", "", t.ps), LAMBDA value :
        Parsed(value.ps, ThrowNode(value.v))))

\* parseDestructuredValue(isRest)
parseDestructuredValue(isRest, ps) ==
    Then(lexerConsume(ps, "identifier"), LAMBDA name :
    Then(IF isRest THEN Parsed(name.ps, NoToken)
         ELSE lexerPeekOperator(name.ps, "="), LAMBDA eq :
        IF eq.v # NoToken
        THEN Then(lexerConsume(eq.ps, ""), LAMBDA c :
             Then(parseRule("parseExpression", "", c.ps), LAMBDA defaultValue :
                Parsed(defaultValue.ps,
                       DestructuredValue(TextOf(name.v.value), defaultValue.v, isRest))))
        ELSE Parsed(eq.ps, DestructuredValue(TextOf(name.v.value), None, isRest))))

\* parseVariable.destructure.parseValue: acc holds values and foundRest
parseValue(type, ps, acc) ==
    IF acc.foundRest # NoToken
    THEN ParseFailed(ps, ParserError(acc.foundRest.position,
                                     "Cannot destructure more values after rest value"))
    ELSE
    Then(lexerPeek(ps, "..."), LAMBDA dots :
    Then(IF dots.v # NoToken THEN lexerConsume(dots.ps, "")
         ELSE Parsed(dots.ps, NoToken), LAMBDA foundRest :
    Then(IF type = "DestructureArray" THEN lexerPeek(foundRest.ps, ",")
         ELSE Parsed(foundRest.ps, NoToken), LAMBDA comma :
        IF comma.v # NoToken
        THEN Parsed(comma.ps, [values |-> Append(acc.values, Hole),
                               foundRest |-> foundRest.v])
        ELSE Then(parseDestructuredValue(foundRest.v # NoToken, comma.ps), LAMBDA value :
                Parsed(value.ps, [values |-> Append(acc.values, value.v),
                                  foundRest |-> foundRest.v])))))

\* parseVariable.destructure, the loop over the values after the first
RECURSIVE parseValues(_, _, _)
parseValues(type, ps, acc) ==
    Then(lexerPeek(ps, ","), LAMBDA comma :
        IF comma.v # NoToken
        THEN Then(lexerConsume(comma.ps, ""), LAMBDA c :
             Then(parseValue(type, c.ps, acc), LAMBDA value :
                parseValues(type, value.ps, value.v)))
        ELSE Parsed(comma.ps, acc))

\* parseVariable.destructure: the left of the node
destructure(type, open, close, ps) ==
    Then(lexerConsume(ps, open), LAMBDA o :
    Then(lexerPeek(o.ps, close), LAMBDA end :
    Then(IF end.v = NoToken
         THEN Then(parseValue(type, end.ps, [values |-> <<>>, foundRest |-> NoToken]),
                   LAMBDA value : parseValues(type, value.ps, value.v))
         ELSE Parsed(end.ps, [values |-> <<>>, foundRest |-> NoToken]), LAMBDA acc :
    Then(lexerConsume(acc.ps, close), LAMBDA c :
        Parsed(c.ps, DestructuringNode(type, acc.v.values, None))))))

\* parseVariable, the identifier form
parseIdentifierVariable(ps) ==
    Then(lexerConsume(ps, "identifier"), LAMBDA name :
        Parsed(name.ps, VariableNode(TextOf(name.v.value), None)))

\* parseVariable, what stands left of the initializer
parseVariableLeft(mustBeIdent, ps) ==
    IF mustBeIdent THEN parseIdentifierVariable(ps)
    ELSE Then(lexerPeek(ps, "["), LAMBDA bracket :
            IF bracket.v # NoToken
            THEN destructure("DestructureArray", "[", "]", bracket.ps)
            ELSE Then(lexerPeek(bracket.ps, "{"), LAMBDA brace :
                    IF brace.v # NoToken
                    THEN destructure("DestructureObject", "{", "}", brace.ps)
                    ELSE parseIdentifierVariable(brace.ps)))

\* parseVariable(mustBeIdent)
parseVariable(mustBeIdent, ps) ==
    Then(parseVariableLeft(mustBeIdent, ps), LAMBDA node :
    Then(lexerPeekOperator(node.ps, "="), LAMBDA eq :
        IF eq.v # NoToken
        THEN Then(lexerConsume(eq.ps, ""), LAMBDA c :
             Then(parseRule("parseExpression", "", c.ps), LAMBDA defaultValue :
                Parsed(defaultValue.ps,
                       [node.v EXCEPT !.defaultValue = defaultValue.v])))
        ELSE Parsed(eq.ps, node.v)))

\* parseVarDecl(isConst)
parseVarDecl(isConst, ps) ==
    Then(lexerConsume(ps, IF isConst THEN "const" ELSE "let"), LAMBDA keyword :
    Then(parseRule("parseVariable", "", keyword.ps), LAMBDA variableNode :
    Then(lexerConsume(variableNode.ps, ";"), LAMBDA semi :
        Parsed(semi.ps, VarDeclNode(isConst, variableNode.v)))))

\* parseBlock, the loop over the statements
RECURSIVE parseStatements(_, _)
parseStatements(ps, statements) ==
    Then(lexerPeek(ps, "}"), LAMBDA close :
        IF close.v = NoToken
        THEN Then(parseRule("parseStatement", "", close.ps), LAMBDA statement :
                parseStatements(statement.ps, Append(statements, statement.v)))
        ELSE Parsed(close.ps, statements))

\* parseBlock: blockDepth goes back down only when no statement threw
parseBlock(ps) ==
    Then(lexerConsume(ps, "{"), LAMBDA open :
    Then(parseStatements([open.ps EXCEPT !.blockDepth = @ + 1], <<>>), LAMBDA statements :
    Then(lexerConsume([statements.ps EXCEPT !.blockDepth = @ - 1], "}"), LAMBDA close :
        Parsed(close.ps, BlockNode(statements.v)))))

\* parseReturn
parseReturn(ps) ==
    Then(lexerConsume(ps, "return"), LAMBDA r :
    Then(lexerPeek(r.ps, ";"), LAMBDA semi :
    Then(IF semi.v = NoToken THEN parseRule("parseExpression", "", semi.ps)
         ELSE Parsed(semi.ps, None), LAMBDA returnValue :
    Then(lexerConsume(returnValue.ps, ";"), LAMBDA c :
        Parsed(c.ps, ReturnNode(returnValue.v))))))

\* parseStatement, the default case: an expression and its ';'
parseExpressionStatement(ps) ==
    Then(parseRule("parseExpression", "", ps), LAMBDA expression :
    Then(lexerConsume(expression.ps, ";"), LAMBDA semi :
        Parsed(semi.ps, expression.v)))

\* parseStatement: lexer.switchTokenType over the kind of the next token
parseStatement(ps) ==
    Then(lexerPeek(ps, ""), LAMBDA token :
        CASE token.v.type = "const"  -> parseRule("parseVarDecl(true)", "", token.ps)
          [] token.v.type = "let"    -> parseRule("parseVarDecl(false)", "", token.ps)
          [] token.v.type = "{"      -> parseRule("parseBlock", "", token.ps)
          [] token.v.type = "if"     -> parseIf(token.ps)
          [] token.v.type = "while"  -> parseWhile(token.ps)
          [] token.v.type = "return" -> parseReturn(token.ps)
          [] token.v.type = "throw"  -> parseThrow(token.ps)
          [] token.v.type = "try"    -> parseTryCatch(token.ps)
          [] token.v.type = "import" -> parseImport(token.ps)
          [] token.v.type = "export" -> parseExport(token.ps)
          [] token.v.type = ";"      ->
                Then(lexerConsume(token.ps, ";"), LAMBDA semi : Parsed(semi.ps, NoopNode))
          [] token.v.type \in ObjectPrototypeNames ->
                Beyond(token.ps, "Object.prototype")
          [] OTHER                   -> parseExpressionStatement(token.ps))

\* validOperators.includes(op.value) || validOperators.includes(op.type)
IsValidOperator(op, validOperators) ==
    /\ op # NoToken
    /\ \/ (op.value[1] = "str" /\ op.value[2] \in validOperators)
       \/ op.type \in validOperators

\* lexer.peekOperator(a) || lexer.peekOperator(b)
peekEitherOperator(ps, a, b) ==
    Then(lexerPeekOperator(ps, a), LAMBDA first :
        IF first.v # NoToken THEN first ELSE lexerPeekOperator(first.ps, b))

\* the arguments of a call after its '(': expressions between commas, and ')'
RECURSIVE parseMoreArgs(_, _)
parseMoreArgs(ps, args) ==
    Then(lexerPeek(ps, ","), LAMBDA comma :
        IF comma.v # NoToken
        THEN Then(lexerConsume(comma.ps, ""), LAMBDA c :
             Then(parseRule("parseExpression", "", c.ps), LAMBDA arg :
                parseMoreArgs(arg.ps, Append(args, arg.v))))
        ELSE Parsed(comma.ps, args))

parseArgs(ps) ==
    Then(lexerPeek(ps, ")"), LAMBDA close :
    Then(IF close.v = NoToken
         THEN Then(parseRule("parseExpression", "", close.ps), LAMBDA arg :
                parseMoreArgs(arg.ps, <<arg.v>>))
         ELSE Parsed(close.ps, <<>>), LAMBDA args :
    Then(lexerConsume(args.ps, ")"), LAMBDA c : Parsed(c.ps, args.v))))

\* parseAccess, the case of a '.'
parseFieldAccess(ps, object) ==
    Then(lexerConsume(ps, "."), LAMBDA dot :
    Then(lexerConsume(dot.ps, "identifier"), LAMBDA fieldName :
    Then(lexerPeek(fieldName.ps, "("), LAMBDA open :
        IF open.v # NoToken
        THEN Then(lexerConsume(open.ps, "("), LAMBDA c :
             Then(parseArgs(c.ps), LAMBDA args :
                Parsed(args.ps,
                       MethodCallNode(object, TextOf(fieldName.v.value), args.v))))
        ELSE Parsed(open.ps, FieldAccessNode(object, TextOf(fieldName.v.value))))))

\* parseAccess, the loop over the accesses that follow the primary `object`
RECURSIVE parseAccesses(_, _)
parseAccesses(ps, object) ==
    Then(lexerPeek(ps, "["), LAMBDA bracket :
        IF bracket.v # NoToken
        THEN Then(lexerConsume(bracket.ps, "["), LAMBDA c :
             Then(parseRule("parseExpression", "", c.ps), LAMBDA index :
             Then(lexerConsume(index.ps, "]"), LAMBDA close :
                parseAccesses(close.ps, ArrayAccessNode(object, index.v)))))
        ELSE
        Then(lexerPeek(bracket.ps, "."), LAMBDA dot :
            IF dot.v # NoToken
            THEN Then(parseFieldAccess(dot.ps, object), LAMBDA access :
                    parseAccesses(access.ps, access.v))
            ELSE
            Then(lexerPeek(dot.ps, "("), LAMBDA open :
                IF open.v # NoToken
                THEN Then(lexerConsume(open.ps, "("), LAMBDA c :
                     Then(parseArgs(c.ps), LAMBDA args :
                        parseAccesses(args.ps, FuncCallNode(object, args.v))))
                ELSE Parsed(open.ps, object))))

\* parseLoad
parseLoad(ps) ==
    Then(lexerConsume(ps, ""), LAMBDA name : Parsed(name.ps, LoadNode(TextOf(name.v.value))))

\* parseTypeof
parseTypeof(ps) ==
    Then(lexerConsume(ps, "typeof"), LAMBDA t :
    Then(parseRule("parseExpression", "", t.ps), LAMBDA expr :
        Parsed(expr.ps, TypeofNode(expr.v))))

\* parseNew
parseNew(ps) ==
    Then(lexerConsume(ps, "new"), LAMBDA n :
    Then(lexerConsume(n.ps, "identifier"), LAMBDA className :
    Then(lexerPeek(className.ps, "("), LAMBDA open :
        IF open.v # NoToken
        THEN Then(lexerConsume(open.ps, "("), LAMBDA c :
             Then(parseArgs(c.ps), LAMBDA args :
                Parsed(args.ps, NewNode(TextOf(className.v.value), args.v))))
        ELSE Parsed(open.ps, NewNode(TextOf(className.v.value), <<>>)))))

\* parseFunction, the parameters between '(' and ')' after the first
RECURSIVE parseMoreParameters(_, _)
parseMoreParameters(ps, parameters) ==
    Then(lexerPeek(ps, ","), LAMBDA comma :
        IF comma.v # NoToken
        THEN Then(lexerConsume(comma.ps, ""), LAMBDA c :
             Then(parseRule("parseVariable", "", c.ps), LAMBDA parameter :
                parseMoreParameters(parameter.ps, Append(parameters, parameter.v))))
        ELSE Parsed(comma.ps, parameters))

\* parseFunction, the parameters
parseParameters(ps) ==
    Then(lexerPeek(ps, "("), LAMBDA open :
        IF open.v # NoToken
        THEN Then(lexerConsume(open.ps, "("), LAMBDA c :
             Then(lexerPeek(c.ps, ")"), LAMBDA close :
             Then(IF close.v = NoToken
                  THEN Then(parseRule("parseVariable", "", close.ps), LAMBDA parameter :
                            parseMoreParameters(parameter.ps, <<parameter.v>>))
                  ELSE Parsed(close.ps, <<>>), LAMBDA parameters :
             Then(lexerConsume(parameters.ps, ")"), LAMBDA e :
                Parsed(e.ps, parameters.v)))))
        ELSE Then(parseRule("parseVariable(true)", "", open.ps), LAMBDA parameter :
                Parsed(parameter.ps, <<parameter.v>>)))

\* parseFunction: blockDepth goes back down only when the body did not throw
parseFunction(ps) ==
    Then(parseParameters(ps), LAMBDA parameters :
    Then(lexerConsume(parameters.ps, "=>"), LAMBDA arrow :
    Then(lexerPeek([arrow.ps EXCEPT !.blockDepth = @ + 1], "{"), LAMBDA brace :
    Then(IF brace.v # NoToken THEN parseRule("parseBlock", "", brace.ps)
         ELSE parseRule("parseExpression", "", brace.ps), LAMBDA body :
        Parsed([body.ps EXCEPT !.blockDepth = @ - 1],
               FunctionNode(parameters.v, body.v))))))

\* parseParentheses
parseParentheses(ps) ==
    Then(lexerConsume(ps, "("), LAMBDA open :
    Then(parseRule("parseExpression", "", open.ps), LAMBDA expr :
    Then(lexerConsume(expr.ps, ")"), LAMBDA close :
        Parsed(close.ps, ParenthesesNode(expr.v)))))

\* parseExpressionOrSpread
parseExpressionOrSpread(ps) ==
    Then(lexerPeek(ps, "..."), LAMBDA dots :
        IF dots.v # NoToken
        THEN Then(lexerConsume(dots.ps, ""), LAMBDA c :
             Then(parseRule("parseExpression", "", c.ps), LAMBDA expr :
                Parsed(expr.ps, SpreadNode(expr.v))))
        ELSE parseRule("parseExpression", "", dots.ps))

\* parseArray, the elements after the first
RECURSIVE parseMoreElements(_, _)
parseMoreElements(ps, elements) ==
    Then(lexerPeek(ps, ","), LAMBDA comma :
        IF comma.v # NoToken
        THEN Then(lexerConsume(comma.ps, ""), LAMBDA c :
             Then(parseExpressionOrSpread(c.ps), LAMBDA element :
                parseMoreElements(element.ps, Append(elements, element.v))))
        ELSE Parsed(comma.ps, elements))

\* parseArray
parseArray(ps) ==
    Then(lexerConsume(ps, "["), LAMBDA open :
    Then(lexerPeek(open.ps, "]"), LAMBDA close :
    Then(IF close.v = NoToken
         THEN Then(parseExpressionOrSpread(close.ps), LAMBDA element :
                parseMoreElements(element.ps, <<element.v>>))
         ELSE Parsed(close.ps, <<>>), LAMBDA elements :
    Then(lexerConsume(elements.ps, "]"), LAMBDA c :
        Parsed(c.ps, ArrayNode(elements.v))))))

\* parsePrimary, the literal of a keyword value: consume and new LiteralNode
parseKeywordValue(ps, literalValue) ==
    Then(lexerConsume(ps, ""), LAMBDA c : Parsed(c.ps, LiteralNode(literalValue)))

\* parsePrimary, a number or a string: new LiteralNode of the token's value
\* (parseFloat of a number gives the number)
parseLiteral(ps) ==
    Then(lexerConsume(ps, ""), LAMBDA token : Parsed(token.ps, LiteralNode(token.v.value)))

\* parsePrimary, lexer.switchTokenType over the kind of the next token
parsePrimarySwitch(ps) ==
    Then(lexerPeek(ps, ""), LAMBDA token :
        CASE token.v.type = "true"       -> parseKeywordValue(token.ps, <<"bool", TRUE>>)
          [] token.v.type = "false"      -> parseKeywordValue(token.ps, <<"bool", FALSE>>)
          [] token.v.type = "null"       -> parseKeywordValue(token.ps, <<"null", 0>>)
          [] token.v.type = "undefined"  -> parseKeywordValue(token.ps, Undef)
          [] token.v.type = "number"     -> parseLiteral(token.ps)
          [] token.v.type = "string"     -> parseLiteral(token.ps)
          [] token.v.type = "("          -> parseParentheses(token.ps)
          [] token.v.type = "["          -> parseArray(token.ps)
          [] token.v.type = "{"          -> Beyond(token.ps, "parseObject")
          [] token.v.type = "<"          -> Beyond(token.ps, "parseHtml")
          [] token.v.type = Backtick     -> Beyond(token.ps, "parseTemplateString")
          [] token.v.type = "new"        -> parseNew(token.ps)
          [] token.v.type = "typeof"     -> parseTypeof(token.ps)
          [] token.v.type = "identifier" -> parseLoad(token.ps)
          [] token.v.type \in ObjectPrototypeNames -> Beyond(token.ps, "Object.prototype")
          [] OTHER -> ParseFailed(token.ps,
                        ParserError(token.ps.lexer.currentPosition, "Unexpected token")))

\* parsePrimary, the body of its try: the primary, given up for a function
\* when '=>' follows it
parsePrimaryTry(p) ==
    Then(parsePrimarySwitch(p.ps), LAMBDA result :
    Then(lexerPeek(result.ps, "=>"), LAMBDA arrow :
        IF arrow.v # NoToken
        THEN parseRule("parseFunction", "", backtrack(arrow.ps, p, FALSE))
        ELSE Parsed(arrow.ps, result.v)))

\* parsePrimary: whatever the try throws, the lexer goes back to where the
\* primary began and a function is parsed from there
parsePrimary(ps) ==
    Then(lexerPeek(ps, ""), LAMBDA p :
    With(parsePrimaryTry(p), LAMBDA r :
        IF r.k = "throw" /\ ~IsBeyond(r)
        THEN parseRule("parseFunction", "", backtrack(r.ps, p, TRUE))
        ELSE r))

\* parsePostOp, from the expression that parseAccess returned
parsePostOpFrom(expr) ==
    Then(peekEitherOperator(expr.ps, "--", "++"), LAMBDA step :
        IF step.v # NoToken
        THEN Then(lexerConsume(step.ps, ""), LAMBDA op :
                Parsed(op.ps, IncOrDecNode(FALSE, TextOf(op.v.value), expr.v)))
        ELSE Parsed(step.ps, expr.v))

\* parsePostOp: parseAccess (parsePrimary and the loop over the accesses),
\* and what parsePostOp does with its expression
parsePostOp(ps) ==
    Then(parsePrimary(ps), LAMBDA object :
    Then(parseAccesses(object.ps, object.v), parsePostOpFrom))

\* parseUnary
parseUnary(ps) ==
    Then(peekEitherOperator(ps, "-", "!"), LAMBDA unary :
        IF unary.v # NoToken
        THEN Then(lexerConsume(unary.ps, ""), LAMBDA op :
             Then(parseRule("parseUnary", "", op.ps), LAMBDA expr :
                Parsed(expr.ps, UnaryOpNode(TextOf(op.v.value), expr.v))))
        ELSE Then(peekEitherOperator(unary.ps, "--", "++"), LAMBDA step :
                IF step.v # NoToken
                THEN Then(lexerConsume(step.ps, ""), LAMBDA op :
                     Then(parseRule("parsePostOp", "", op.ps), LAMBDA expr :
                        Parsed(expr.ps, IncOrDecNode(TRUE, TextOf(op.v.value), expr.v))))
                ELSE parseRule("parsePostOp", "", step.ps)))

\* a parseBinaryExpression that goes on while operators of the level follow
RECURSIVE parseBinaryExpressionChaining(_, _, _)
parseBinaryExpressionChaining(left, parseSubExpression, validOperators) ==
    Then(lexerPeek(left.ps, ""), LAMBDA op :
        IF IsValidOperator(op.v, validOperators)
        THEN Then(lexerConsume(op.ps, ""), LAMBDA c :
             Then(parseRule(parseSubExpression, "", c.ps), LAMBDA right :
                parseBinaryExpressionChaining(
                    Parsed(right.ps,
                           BinaryOpNode(left.v, TextOf(op.v.value), right.v)),
                    parseSubExpression, validOperators)))
        ELSE Parsed(op.ps, left.v))

\* parseBinaryExpression({parseSubExpression, validOperators}), from the left
\* operand that opts.parseSubExpression() returned: after an operator of the
\* level one right operand, and no more
parseBinaryExpression(left, parseSubExpression, validOperators) ==
    Then(lexerPeek(left.ps, ""), LAMBDA op :
        IF IsValidOperator(op.v, validOperators)
        THEN Then(lexerConsume(op.ps, ""), LAMBDA c :
             Then(parseRule(parseSubExpression, "", c.ps), LAMBDA right :
                Parsed(right.ps, BinaryOpNode(left.v, TextOf(op.v.value), right.v))))
        ELSE Parsed(op.ps, left.v))

\* Every rule from parseGeometric up to parseAssignment begins with the rule
\* one level down, so the first thing any of them runs is parseUnary; after
\* it come the levels in turn, each from the left operand the level below
\* returned.  Each rule is written as that sequence.

\* parseGeometric
parseGeometricFrom(left) == parseBinaryExpression(left, "parseUnary", {"*", "/"})
parseGeometric(ps) ==
    Then(parseRule("parseUnary", "", ps), parseGeometricFrom)

\* parseArithmetic
parseArithmeticFrom(left) == parseBinaryExpression(left, "parseGeometric", {"+", "-"})
parseArithmetic(ps) ==
    Then(parseRule("parseUnary", "", ps), LAMBDA unary :
    Then(parseGeometricFrom(unary), parseArithmeticFrom))

\* parseEquality
parseEqualityFrom(left) ==
    parseBinaryExpression(left, "parseArithmetic",
                          {"===", "==", "!==", "!=", ">=", "<=", ">", "<"})
parseEquality(ps) ==
    Then(parseRule("parseUnary", "", ps), LAMBDA unary :
    Then(parseGeometricFrom(unary), LAMBDA geometric :
    Then(parseArithmeticFrom(geometric), parseEqualityFrom)))

\* parseBoolean
parseBooleanFrom(left) == parseBinaryExpression(left, "parseEquality", {"&&", "||"})
parseBoolean(ps) ==
    Then(parseRule("parseUnary", "", ps), LAMBDA unary :
    Then(parseGeometricFrom(unary), LAMBDA geometric :
    Then(parseArithmeticFrom(geometric), LAMBDA arithmetic :
    Then(parseEqualityFrom(arithmetic), parseBooleanFrom))))

\* parseTernary, from the node that parseBoolean returned
parseTernaryFrom(node) ==
    Then(lexerPeek(node.ps, "?"), LAMBDA q :
        IF q.v # NoToken
        THEN Then(lexerConsume(q.ps, ""), LAMBDA c :
             Then(parseRule("parseExpression", "", c.ps), LAMBDA thenExpr :
             Then(lexerConsume(thenExpr.ps, ":"), LAMBDA colon :
             Then(parseRule("parseExpression", "", colon.ps), LAMBDA elseExpr :
                Parsed(elseExpr.ps, TernaryOpNode(node.v, thenExpr.v, elseExpr.v))))))
        ELSE Parsed(q.ps, node.v))

\* parseTernary
parseTernary(ps) ==
    Then(parseRule("parseUnary", "", ps), LAMBDA unary :
    Then(parseGeometricFrom(unary), LAMBDA geometric :
    Then(parseArithmeticFrom(geometric), LAMBDA arithmetic :
    Then(parseEqualityFrom(arithmetic), LAMBDA equality :
    Then(parseBooleanFrom(equality), parseTernaryFrom)))))

\* parseAssignment, from the left operand that parseTernary returned: the
\* right operand is read by parseTernary as well
parseAssignmentFrom(left) ==
    Then(lexerPeek(left.ps, ""), LAMBDA op :
        IF op.v # NoToken /\ op.v.value[1] = "str"
              /\ op.v.value[2] \in {"=", "+=", "-=", "*=", "/="}
        THEN Then(lexerConsume(op.ps, ""), LAMBDA c :
             Then(parseRule("parseTernary", "", c.ps), LAMBDA right :
                Parsed(right.ps, AssignmentNode(left.v, TextOf(op.v.value), right.v))))
        ELSE Parsed(op.ps, left.v))

\* parseAssignment
parseAssignment(ps) ==
    Then(parseRule("parseUnary", "", ps), LAMBDA unary :
    Then(parseGeometricFrom(unary), LAMBDA geometric :
    Then(parseArithmeticFrom(geometric), LAMBDA arithmetic :
    Then(parseEqualityFrom(arithmetic), LAMBDA equality :
    Then(parseBooleanFrom(equality), LAMBDA boolean :
    Then(parseTernaryFrom(boolean), parseAssignmentFrom))))))

\* parseExpression
parseExpression(ps) == parseAssignment(ps)

\* parse, the loop over the statements of the program
RECURSIVE parseNodes(_, _)
parseNodes(ps, nodes) ==
    Then(lexerPeek(ps, ""), LAMBDA token :
        IF token.v # NoToken
        THEN Then(parseRule("parseStatement", "", token.ps), LAMBDA node :
                parseNodes(node.ps, Append(nodes, node.v)))
        ELSE Parsed(token.ps, nodes))

\* parse
parse(ps) == parseNodes(ps, <<>>)

\* the rules that are called from rules defined before them and the calls on
\* this.lexer, by name; arg is the argument of a call on the lexer
parseRule(rule, arg, ps) ==
    CASE rule = "lexer.peek"          -> OfLexer(ps, peek(ps.lexer, arg))
      [] rule = "lexer.peekOperator"  -> OfLexer(ps, peekOperator(ps.lexer, arg))
      [] rule = "lexer.consume"       -> OfLexer(ps, consume(ps.lexer, arg))
      [] rule = "parseStatement"      -> parseStatement(ps)
      [] rule = "parseExpression"     -> parseExpression(ps)
      [] rule = "parseBlock"          -> parseBlock(ps)
      [] rule = "parseVarDecl(true)"  -> parseVarDecl(TRUE, ps)
      [] rule = "parseVarDecl(false)" -> parseVarDecl(FALSE, ps)
      [] rule = "parseVariable"       -> parseVariable(FALSE, ps)
      [] rule = "parseVariable(true)" -> parseVariable(TRUE, ps)
      [] rule = "parseFunction"       -> parseFunction(ps)
      [] rule = "parsePostOp"         -> parsePostOp(ps)
      [] rule = "parseUnary"          -> parseUnary(ps)
      [] rule = "parseGeometric"      -> parseGeometric(ps)
      [] rule = "parseArithmetic"     -> parseArithmetic(ps)
      [] rule = "parseEquality"       -> parseEquality(ps)
      [] rule = "parseTernary"        -> parseTernary(ps)

(***************************************************************************)
(* toSource (nodes.ts).  The source of a node is a text, character by      *)
(* character like the input of the Lexer; a toSource that throws gives the *)
(* error in place of the text.                                             *)
(***************************************************************************)
Emitted(text) == [k |-> "normal", v |-> text]
EmitFailed(e) == [k |-> "throw", v |-> e]

\* the texts of the names, operators and string literals of the programs
Words ==
    {<<c>> : c \in AlphaChars}
    \cup {operators[i] : i \in 1..Len(operators)}
    \cup {symbols[i] : i \in 1..Len(symbols)}
    \cup {<<"l", "e", "n", "g", "t", "h">>, <<"i", "t", "'", "s">>, <<"a", "b">>}
    \cup {<<"o", "o", "p", "s">>, <<"!">>}

\* the characters of a string, as a template literal interpolates it
Chars(s) == IF s = "" THEN <<>> ELSE CHOOSE text \in Words : Join(text) = s

\* the decimal digits of a natural number
RECURSIVE Digits(_)
Digits(n) ==
    IF n < 10 THEN <<DigitChars[n + 1]>>
    ELSE Digits(n \div 10) \o <<DigitChars[(n % 10) + 1]>>

\* `${literalValue}` of a literal that is not a string
LiteralText(v) ==
    CASE v[1] = "num"   -> IF v[2] < 0 THEN <<"-">> \o Digits(0 - v[2]) ELSE Digits(v[2])
      [] v[1] = "float" -> Digits(v[2][1]) \o <<".">> \o Chars(v[2][2])
      [] v[1] = "bool"  -> IF v[2] THEN <<"t", "r", "u", "e">>
                           ELSE <<"f", "a", "l", "s", "e">>
      [] v[1] = "null"  -> <<"n", "u", "l", "l">>
      [] v[1] = "undef" -> <<"u", "n", "d", "e", "f", "i", "n", "e", "d">>

\* the parts of a template literal put together, the first part that throws
\* ending it
RECURSIVE Template(_)
Template(parts) ==
    IF Len(parts) = 0 THEN Emitted(<<>>)
    ELSE IF Head(parts).k = "throw" THEN Head(parts)
    ELSE With(Template(Tail(parts)), LAMBDA rest :
            IF rest.k = "throw" THEN rest ELSE Emitted(Head(parts).v \o rest.v))

\* Array.join(', ') of the sources of a list
RECURSIVE JoinSources(_)
JoinSources(sources) ==
    IF Len(sources) = 0 THEN Emitted(<<>>)
    ELSE IF Len(sources) = 1 THEN Head(sources)
    ELSE Template(<<Head(sources), Emitted(<<",", " ">>), JoinSources(Tail(sources))>>)

\* item instanceof ExpressionNode
IsExpressionNode(node) ==
    node.k \in {"Literal", "Load", "Parentheses", "Spread", "Array", "Function",
                "UnaryOp", "IncOrDec", "BinaryOp", "Assignment", "TernaryOp",
                "ArrayAccess", "FieldAccess", "FuncCall", "MethodCall", "New",
                "Typeof"}

RECURSIVE toSource(_)

\* the sources of the nodes of a list, one by one
toSources(nodes) == [i \in 1..Len(nodes) |-> toSource(nodes[i])]

\* statementListToSource: an expression statement gets a `;`, no other does
statementListToSource(list) ==
    Template([i \in 1..Len(list) |->
        Template(<<toSource(list[i]),
                   Emitted(IF IsExpressionNode(list[i]) THEN <<";">> ELSE <<>>)>>)])

\* expressionListToSource
expressionListToSource(list) == JoinSources(toSources(list))

\* VariableNode.toSource, ` = ${defaultValue}` of a node or of a destructured
\* value
defaultValueToSource(defaultValue) ==
    IF defaultValue.k # "None"
    THEN Template(<<Emitted(<<" ", "=", " ">>), toSource(defaultValue)>>)
    ELSE Emitted(<<>>)

\* VariableNode.toSource, one destructured value: the hole of a pattern is
\* null, and reading isRest of it is a TypeError
destructuredToSource(destructured) ==
    IF destructured.k = "Hole" THEN EmitFailed(TypeError)
    ELSE Template(<<Emitted(IF destructured.isRest THEN <<".", ".", ".">> ELSE <<>>),
                    Emitted(Chars(destructured.name)),
                    defaultValueToSource(destructured.defaultValue)>>)

\* VariableNode.toSource
VariableNodeToSource(node) ==
    CASE node.variableType = "Identifier" ->
            Template(<<Emitted(Chars(node.left)), defaultValueToSource(node.defaultValue)>>)
      [] node.variableType = "DestructureArray" ->
            Template(<<Emitted(<<"[">>),
                       JoinSources([i \in 1..Len(node.left) |->
                                        destructuredToSource(node.left[i])]),
                       Emitted(<<"]">>),
                       defaultValueToSource(node.defaultValue)>>)
      [] node.variableType = "DestructureObject" ->
            Template(<<Emitted(<<"{">>),
                       JoinSources([i \in 1..Len(node.left) |->
                                        destructuredToSource(node.left[i])]),
                       Emitted(<<"}">>),
                       defaultValueToSource(node.defaultValue)>>)

\* VarDeclNode.toSource
VarDeclNodeToSource(node) ==
    Template(<<Emitted(IF node.isConst THEN <<"c", "o", "n", "s", "t", " ">>
                       ELSE <<"l", "e", "t", " ">>),
               toSource(node.variableNode),
               Emitted(<<";">>)>>)

\* BlockNode.toSource
BlockNodeToSource(node) ==
    Template(<<Emitted(<<"{">>), statementListToSource(node.statements),
               Emitted(<<"}">>)>>)

\* ReturnNode.toSource
ReturnNodeToSource(node) ==
    Template(<<Emitted(<<"r", "e", "t", "u", "r", "n">>),
               IF node.returnValue.k # "None"
               THEN Template(<<Emitted(<<" ">>), toSource(node.returnValue)>>)
               ELSE Emitted(<<>>),
               Emitted(<<";">>)>>)

\* IfNode.toSource
IfNodeToSource(node) ==
    Template(<<Emitted(<<"i", "f", " ", "(">>), toSource(node.condition),
               Emitted(<<")", " ">>), toSource(node.thenStatement),
               IF node.elseStatement.k # "None"
               THEN Template(<<Emitted(<<" ", "e", "l", "s", "e", " ">>),
                               toSource(node.elseStatement)>>)
               ELSE Emitted(<<>>)>>)

\* WhileNode.toSource
WhileNodeToSource(node) ==
    Template(<<Emitted(<<"w", "h", "i", "l", "e", " ", "(">>), toSource(node.condition),
               Emitted(<<")", " ">>), toSource(node.loop)>>)

\* ThrowNode.toSource
ThrowNodeToSource(node) ==
    Template(<<Emitted(<<"t", "h", "r", "o", "w", " ">>), toSource(node.value)>>)

\* TryCatchNode.toSource
TryCatchNodeToSource(node) ==
    Template(<<Emitted(<<"t", "r", "y", " ">>), toSource(node.tryBlock),
               Emitted(<<" ", "c", "a", "t", "c", "h">>),
               IF node.catchErrorName # ""
               THEN Emitted(<<" ", "(">> \o Chars(node.catchErrorName) \o <<")">>)
               ELSE Emitted(<<>>),
               Emitted(<<" ">>), toSource(node.catchBlock),
               IF node.finallyBlock.k # "None"
               THEN Template(<<Emitted(<<" ", "f", "i", "n", "a", "l", "l", "y", " ">>),
                               toSource(node.finallyBlock)>>)
               ELSE Emitted(<<>>)>>)

\* LiteralNode.toSource: a string between single quotes, whatever it holds
LiteralNodeToSource(node) ==
    IF node.literalValue[1] = "str"
    THEN Emitted(<<"'">> \o Chars(node.literalValue[2]) \o <<"'">>)
    ELSE Emitted(LiteralText(node.literalValue))

\* FunctionNode.toSource
FunctionNodeToSource(node) ==
    Template(<<Emitted(<<"(">>), JoinSources(toSources(node.parameters)),
               Emitted(<<")", " ", "=", ">", " ">>), toSource(node.body)>>)

\* BinaryOpNode.toSource, which AssignmentNode inherits
BinaryOpNodeToSource(node) ==
    Template(<<toSource(node.left), Emitted(<<" ">> \o Chars(node.opType) \o <<" ">>),
               toSource(node.right)>>)

\* TernaryOpNode.toSource
TernaryOpNodeToSource(node) ==
    Template(<<toSource(node.condition), Emitted(<<" ", "?", " ">>),
               toSource(node.thenExpr), Emitted(<<" ", ":", " ">>),
               toSource(node.elseExpr)>>)

\* node.toSource(bundler), by the class of the node; a class without a
\* toSource of its own has that of ParseNode
toSource(node) ==
    CASE node.k = "Variable"    -> VariableNodeToSource(node)
      [] node.k = "VarDecl"     -> VarDeclNodeToSource(node)
      [] node.k = "Block"       -> BlockNodeToSource(node)
      [] node.k = "Return"      -> ReturnNodeToSource(node)
      [] node.k = "If"          -> IfNodeToSource(node)
      [] node.k = "While"       -> WhileNodeToSource(node)
      [] node.k = "Throw"       -> ThrowNodeToSource(node)
      [] node.k = "TryCatch"    -> TryCatchNodeToSource(node)
      [] node.k = "Literal"     -> LiteralNodeToSource(node)
      [] node.k = "Load"        -> Emitted(Chars(node.varName))
      [] node.k = "Parentheses" ->
            Template(<<Emitted(<<"(">>), toSource(node.expr), Emitted(<<")">>)>>)
      [] node.k = "Spread"      ->
            Template(<<Emitted(<<".", ".", ".">>), toSource(node.expr)>>)
      [] node.k = "Array"       ->
            Template(<<Emitted(<<"[">>), JoinSources(toSources(node.elements)),
                       Emitted(<<"]">>)>>)
      [] node.k = "Function"    -> FunctionNodeToSource(node)
      [] node.k = "UnaryOp"     ->
            Template(<<Emitted(Chars(node.opType)), toSource(node.expr)>>)
      [] node.k = "IncOrDec"    ->
            IF node.pre
            THEN Template(<<Emitted(Chars(node.opType)), toSource(node.expr)>>)
            ELSE Template(<<toSource(node.expr), Emitted(Chars(node.opType))>>)
      [] node.k \in {"BinaryOp", "Assignment"} -> BinaryOpNodeToSource(node)
      [] node.k = "TernaryOp"   -> TernaryOpNodeToSource(node)
      [] node.k = "ArrayAccess" ->
            Template(<<toSource(node.object), Emitted(<<"[">>), toSource(node.index),
                       Emitted(<<"]">>)>>)
      [] node.k = "FieldAccess" ->
            Template(<<toSource(node.object), Emitted(<<".">> \o Chars(node.field))>>)
      [] node.k = "FuncCall"    ->
            Template(<<toSource(node.object), Emitted(<<"(">>),
                       expressionListToSource(node.args), Emitted(<<")">>)>>)
      [] node.k = "MethodCall"  ->
            Template(<<toSource(node.object),
                       Emitted(<<".">> \o Chars(node.fieldName) \o <<"(">>),
                       expressionListToSource(node.args), Emitted(<<")">>)>>)
      [] node.k = "New"         ->
            Template(<<Emitted(<<"n", "e", "w", " ">> \o Chars(node.className) \o <<"(">>),
                       expressionListToSource(node.args), Emitted(<<")">>)>>)
      [] node.k = "Typeof"      ->
            Template(<<Emitted(<<"t", "y", "p", "e", "o", "f", " ">>),
                       toSource(node.expr)>>)
      [] node.k \in {"Noop", "Import", "Export"} -> Emitted(<<>>)

(***************************************************************************)
(* The host of a Parser (SpecParse): it parses a program text, emits the   *)
(* source of the nodes, parses the emitted source again, and evaluates     *)
(* both lists of nodes, each on a Runtime of its own.                      *)
(***************************************************************************)
\* the program texts, character by character
ProgramTexts == <<
    \* 1: a + b + c
    <<"a", " ", "+", " ", "b", " ", "+", " ", "c">>,
    \* 2: a + b + c;
    <<"a", " ", "+", " ", "b", " ", "+", " ", "c", ";">>,
    \* 3: a = b = c
    <<"a", " ", "=", " ", "b", " ", "=", " ", "c">>,
    \* 4: a = b = c;
    <<"a", " ", "=", " ", "b", " ", "=", " ", "c", ";">>,
    \* 5: a * b + c == d && e;
    <<"a", " ", "*", " ", "b", " ", "+", " ", "c", " ", "=", "=", " ", "d",
      " ", "&", "&", " ", "e", ";">>,
    \* 6: if (x) import 'f';
    <<"i", "f", " ", "(", "x", ")", " ", "i", "m", "p", "o", "r", "t", " ",
      "'", "f", "'", ";">>,
    \* 7: { import 'f'; }
    <<"{", " ", "i", "m", "p", "o", "r", "t", " ", "'", "f", "'", ";", " ",
      "}">>,
    \* 8: const h = x => { import 'f'; };
    <<"c", "o", "n", "s", "t", " ", "h", " ", "=", " ", "x", " ", "=", ">",
      " ", "{", " ", "i", "m", "p", "o", "r", "t", " ", "'", "f", "'", ";",
      " ", "}", ";">>,
    \* 9: while (x) export default 1;
    <<"w", "h", "i", "l", "e", " ", "(", "x", ")", " ", "e", "x", "p", "o",
      "r", "t", " ", "d", "e", "f", "a", "u", "l", "t", " ", "1", ";">>,
    \* 10: if (x) y = 1; else export * from 'f';
    <<"i", "f", " ", "(", "x", ")", " ", "y", " ", "=", " ", "1", ";", " ",
      "e", "l", "s", "e", " ", "e", "x", "p", "o", "r", "t", " ", "*", " ",
      "f", "r", "o", "m", " ", "'", "f", "'", ";">>,
    \* 11: import d from 'f'; export const z = 1;
    <<"i", "m", "p", "o", "r", "t", " ", "d", " ", "f", "r", "o", "m", " ",
      "'", "f", "'", ";", " ", "e", "x", "p", "o", "r", "t", " ", "c", "o",
      "n", "s", "t", " ", "z", " ", "=", " ", "1", ";">>,
    \* 12: let y = 1; try { throw y; y = 2; } catch (e) { y = e; } return y;
    <<"l", "e", "t", " ", "y", " ", "=", " ", "1", ";", " ", "t", "r", "y",
      " ", "{", " ", "t", "h", "r", "o", "w", " ", "y", ";", " ", "y", " ",
      "=", " ", "2", ";", " ", "}", " ", "c", "a", "t", "c", "h", " ", "(",
      "e", ")", " ", "{", " ", "y", " ", "=", " ", "e", ";", " ", "}", " ",
      "r", "e", "t", "u", "r", "n", " ", "y", ";">>,
    \* 13: let y = 0; if (y) y = 1; return y;
    <<"l", "e", "t", " ", "y", " ", "=", " ", "0", ";", " ", "i", "f", " ",
      "(", "y", ")", " ", "y", " ", "=", " ", "1", ";", " ", "r", "e", "t",
      "u", "r", "n", " ", "y", ";">>,
    \* 14: let x = 1; while (x) x = 0; return x;
    <<"l", "e", "t", " ", "x", " ", "=", " ", "1", ";", " ", "w", "h", "i",
      "l", "e", " ", "(", "x", ")", " ", "x", " ", "=", " ", "0", ";", " ",
      "r", "e", "t", "u", "r", "n", " ", "x", ";">>,
    \* 15: const [a, , ...b] = [1,2,3,4]; return a + b.length;
    <<"c", "o", "n", "s", "t", " ", "[", "a", ",", " ", ",", " ", ".", ".",
      ".", "b", "]", " ", "=", " ", "[", "1", ",", "2", ",", "3", ",", "4",
      "]", ";", " ", "r", "e", "t", "u", "r", "n", " ", "a", " ", "+", " ",
      "b", ".", "l", "e", "n", "g", "t", "h", ";">>,
    \* 16: const g = n => n <= 1 ? 1 : n * g(n - 1); return g(5);
    <<"c", "o", "n", "s", "t", " ", "g", " ", "=", " ", "n", " ", "=", ">",
      " ", "n", " ", "<", "=", " ", "1", " ", "?", " ", "1", " ", ":", " ",
      "n", " ", "*", " ", "g", "(", "n", " ", "-", " ", "1", ")", ";", " ",
      "r", "e", "t", "u", "r", "n", " ", "g", "(", "5", ")", ";">>,
    \* 17: const g = n => n < 2 ? 1 : n * 2; return g(5);
    <<"c", "o", "n", "s", "t", " ", "g", " ", "=", " ", "n", " ", "=", ">",
      " ", "n", " ", "<", " ", "2", " ", "?", " ", "1", " ", ":", " ", "n",
      " ", "*", " ", "2", ";", " ", "r", "e", "t", "u", "r", "n", " ", "g",
      "(", "5", ")", ";">>,
    \* 18: let s = "it's"; return s;
    <<"l", "e", "t", " ", "s", " ", "=", " ", "\"", "i", "t", "'", "s", "\"",
      ";", " ", "r", "e", "t", "u", "r", "n", " ", "s", ";">>,
    \* 19: let s = 'ab'; return s;
    <<"l", "e", "t", " ", "s", " ", "=", " ", "'", "a", "b", "'", ";", " ",
      "r", "e", "t", "u", "r", "n", " ", "s", ";">>,
    \* 20: let x = 1; if (x) { x = 2; } else { x = 3; } return x;
    <<"l", "e", "t", " ", "x", " ", "=", " ", "1", ";", " ", "i", "f", " ",
      "(", "x", ")", " ", "{", " ", "x", " ", "=", " ", "2", ";", " ", "}",
      " ", "e", "l", "s", "e", " ", "{", " ", "x", " ", "=", " ", "3", ";",
      " ", "}", " ", "r", "e", "t", "u", "r", "n", " ", "x", ";">>,
    \* 21: const f = (a, b) => { return a + b; }; return f(1, 2);
    <<"c", "o", "n", "s", "t", " ", "f", " ", "=", " ", "(", "a", ",", " ",
      "b", ")", " ", "=", ">", " ", "{", " ", "r", "e", "t", "u", "r", "n",
      " ", "a", " ", "+", " ", "b", ";", " ", "}", ";", " ", "r", "e", "t",
      "u", "r", "n", " ", "f", "(", "1", ",", " ", "2", ")", ";">>,
    \* 22: let x = 1; return - -x;
    <<"l", "e", "t", " ", "x", " ", "=", " ", "1", ";", " ", "r", "e", "t",
      "u", "r", "n", " ", "-", " ", "-", "x", ";">>,
    \* 23: let r = ''; try { throw 'oops'; } catch (e) { r = e; } finally { r = r + '!'; } return r;
    <<"l", "e", "t", " ", "r", " ", "=", " ", "'", "'", ";", " ", "t", "r",
      "y", " ", "{", " ", "t", "h", "r", "o", "w", " ", "'", "o", "o", "p",
      "s", "'", ";", " ", "}", " ", "c", "a", "t", "c", "h", " ", "(", "e",
      ")", " ", "{", " ", "r", " ", "=", " ", "e", ";", " ", "}", " ", "f",
      "i", "n", "a", "l", "l", "y", " ", "{", " ", "r", " ", "=", " ", "r",
      " ", "+", " ", "'", "!", "'", ";", " ", "}", " ", "r", "e", "t", "u",
      "r", "n", " ", "r", ";">>,
    \* 24: let r = 1; try { r = 2; } catch (e) { r = 3; } finally { r = r + 1; } return r;
    <<"l", "e", "t", " ", "r", " ", "=", " ", "1", ";", " ", "t", "r", "y",
      " ", "{", " ", "r", " ", "=", " ", "2", ";", " ", "}", " ", "c", "a",
      "t", "c", "h", " ", "(", "e", ")", " ", "{", " ", "r", " ", "=", " ",
      "3", ";", " ", "}", " ", "f", "i", "n", "a", "l", "l", "y", " ", "{",
      " ", "r", " ", "=", " ", "r", " ", "+", " ", "1", ";", " ", "}", " ",
      "r", "e", "t", "u", "r", "n", " ", "r", ";">>,
    \* 25: let r = 1; try { throw 2; } catch (e) { throw 3; } finally { r = 4; } return r;
    <<"l", "e", "t", " ", "r", " ", "=", " ", "1", ";", " ", "t", "r", "y",
      " ", "{", " ", "t", "h", "r", "o", "w", " ", "2", ";", " ", "}", " ",
      "c", "a", "t", "c", "h", " ", "(", "e", ")", " ", "{", " ", "t", "h",
      "r", "o", "w", " ", "3", ";", " ", "}", " ", "f", "i", "n", "a", "l",
      "l", "y", " ", "{", " ", "r", " ", "=", " ", "4", ";", " ", "}", " ",
      "r", "e", "t", "u", "r", "n", " ", "r", ";">>,
    \* 26: let r = 1; try { return 2; } catch (e) { r = e; } finally { r = 3; } return r;
    <<"l", "e", "t", " ", "r", " ", "=", " ", "1", ";", " ", "t", "r", "y",
      " ", "{", " ", "r", "e", "t", "u", "r", "n", " ", "2", ";", " ", "}",
      " ", "c", "a", "t", "c", "h", " ", "(", "e", ")", " ", "{", " ", "r",
      " ", "=", " ", "e", ";", " ", "}", " ", "f", "i", "n", "a", "l", "l",
      "y", " ", "{", " ", "r", " ", "=", " ", "3", ";", " ", "}", " ", "r",
      "e", "t", "u", "r", "n", " ", "r", ";">>,
    \* 27: let r = 1; try { throw 2; } catch (e) { return r; } finally { r = 3; } return 4;
    <<"l", "e", "t", " ", "r", " ", "=", " ", "1", ";", " ", "t", "r", "y",
      " ", "{", " ", "t", "h", "r", "o", "w", " ", "2", ";", " ", "}", " ",
      "c", "a", "t", "c", "h", " ", "(", "e", ")", " ", "{", " ", "r", "e",
      "t", "u", "r", "n", " ", "r", ";", " ", "}", " ", "f", "i", "n", "a",
      "l", "l", "y", " ", "{", " ", "r", " ", "=", " ", "3", ";", " ", "}",
      " ", "r", "e", "t", "u", "r", "n", " ", "4", ";">>,
    \* 28: const f = () => { throw 7; }; { f(); } return 1;
    <<"c", "o", "n", "s", "t", " ", "f", " ", "=", " ", "(", ")", " ", "=",
      ">", " ", "{", " ", "t", "h", "r", "o", "w", " ", "7", ";", " ", "}",
      ";", " ", "{", " ", "f", "(", ")", ";", " ", "}", " ", "r", "e", "t",
      "u", "r", "n", " ", "1", ";">>,
    \* 29: let x = 1; const f = () => x; x = 2; return f();
    <<"l", "e", "t", " ", "x", " ", "=", " ", "1", ";", " ", "c", "o", "n",
      "s", "t", " ", "f", " ", "=", " ", "(", ")", " ", "=", ">", " ", "x",
      ";", " ", "x", " ", "=", " ", "2", ";", " ", "r", "e", "t", "u", "r",
      "n", " ", "f", "(", ")", ";">>,
    \* 30: let x = 1; { let x = 3; const f = () => x; x = 4; return f(); }
    <<"l", "e", "t", " ", "x", " ", "=", " ", "1", ";", " ", "{", " ", "l",
      "e", "t", " ", "x", " ", "=", " ", "3", ";", " ", "c", "o", "n", "s",
      "t", " ", "f", " ", "=", " ", "(", ")", " ", "=", ">", " ", "x", ";",
      " ", "x", " ", "=", " ", "4", ";", " ", "r", "e", "t", "u", "r", "n",
      " ", "f", "(", ")", ";", " ", "}">>,
    \* 31: let x = undefined; const f = () => x; x = 2; return f();
    <<"l", "e", "t", " ", "x", " ", "=", " ", "u", "n", "d", "e", "f", "i",
      "n", "e", "d", ";", " ", "c", "o", "n", "s", "t", " ", "f", " ", "=",
      " ", "(", ")", " ", "=", ">", " ", "x", ";", " ", "x", " ", "=", " ",
      "2", ";", " ", "r", "e", "t", "u", "r", "n", " ", "f", "(", ")", ";">>,
    \* 32: { let z = 5; } return z;
    <<"{", " ", "l", "e", "t", " ", "z", " ", "=", " ", "5", ";", " ", "}",
      " ", "r", "e", "t", "u", "r", "n", " ", "z", ";">>,
    \* 33: try { let z = 5; throw 1; } catch (e) { } return z;
    <<"t", "r", "y", " ", "{", " ", "l", "e", "t", " ", "z", " ", "=", " ",
      "5", ";", " ", "t", "h", "r", "o", "w", " ", "1", ";", " ", "}", " ",
      "c", "a", "t", "c", "h", " ", "(", "e", ")", " ", "{", " ", "}", " ",
      "r", "e", "t", "u", "r", "n", " ", "z", ";">>,
    \* 34: const f = (a, b) => x => a;
    <<"c", "o", "n", "s", "t", " ", "f", " ", "=", " ", "(", "a", ",", " ",
      "b", ")", " ", "=", ">", " ", "x", " ", "=", ">", " ", "a", ";">>,
    \* 35: let x = 1; const f = () => ++x; const g = () => x; f(); return [f(), g(), x];
    <<"l", "e", "t", " ", "x", " ", "=", " ", "1", ";", " ", "c", "o", "n",
      "s", "t", " ", "f", " ", "=", " ", "(", ")", " ", "=", ">", " ", "+",
      "+", "x", ";", " ", "c", "o", "n", "s", "t", " ", "g", " ", "=", " ",
      "(", ")", " ", "=", ">", " ", "x", ";", " ", "f", "(", ")", ";", " ",
      "r", "e", "t", "u", "r", "n", " ", "[", "f", "(", ")", ",", " ", "g",
      "(", ")", ",", " ", "x", "]", ";">> >>

\* the texts by name
APlusBPlusC == ProgramTexts[1]
APlusBPlusCStatement == ProgramTexts[2]
AIsBIsC == ProgramTexts[3]
AIsBIsCStatement == ProgramTexts[4]
Mixed == ProgramTexts[5]
ImportInIf == ProgramTexts[6]
ImportInBlock == ProgramTexts[7]
ImportInFunction == ProgramTexts[8]
ExportInWhile == ProgramTexts[9]
ExportInElse == ProgramTexts[10]
TopLevelImportExport == ProgramTexts[11]
ThrowThenAssign == ProgramTexts[12]
IfExpression == ProgramTexts[13]
WhileExpression == ProgramTexts[14]
DestructureHole == ProgramTexts[15]
Factorial == ProgramTexts[16]
TernaryBody == ProgramTexts[17]
DoubleQuoted == ProgramTexts[18]
SingleQuoted == ProgramTexts[19]
IfBlock == ProgramTexts[20]
TwoParameters == ProgramTexts[21]
MinusMinus == ProgramTexts[22]
OopsFinally == ProgramTexts[23]
FinallyAfterTry == ProgramTexts[24]
FinallyAfterCatchThrows == ProgramTexts[25]
FinallyAfterReturn == ProgramTexts[26]
FinallyAfterCatchReturns == ProgramTexts[27]
UncaughtThrow == ProgramTexts[28]
ClosureSnapshot == ProgramTexts[29]
ClosureSnapshotInner == ProgramTexts[30]
ClosureSnapshotUndefined == ProgramTexts[31]
BlockCompletes == ProgramTexts[32]
BlockThrows == ProgramTexts[33]
NestedArrows == ProgramTexts[34]
ClosureCounter == ProgramTexts[35]

\* the child nodes of a node, in the order of its fields
Children(node) ==
    CASE node.k \in {"BinaryOp", "Assignment"} -> <<node.left, node.right>>
      [] node.k = "VarDecl" -> <<node.variableNode>>
      [] node.k = "Variable" ->
            (IF node.variableType = "Identifier" THEN <<>> ELSE node.left)
            \o <<node.defaultValue>>
      [] node.k = "Destructured" -> <<node.defaultValue>>
      [] node.k = "Block" -> node.statements
      [] node.k = "Return" -> <<node.returnValue>>
      [] node.k = "If" -> <<node.condition, node.thenStatement, node.elseStatement>>
      [] node.k = "While" -> <<node.condition, node.loop>>
      [] node.k = "Throw" -> <<node.value>>
      [] node.k = "TryCatch" -> <<node.tryBlock, node.catchBlock, node.finallyBlock>>
      [] node.k = "Function" -> node.parameters \o <<node.body>>
      [] node.k = "TernaryOp" -> <<node.condition, node.thenExpr, node.elseExpr>>
      [] node.k \in {"UnaryOp", "IncOrDec", "Parentheses", "Spread", "Typeof"} ->
            <<node.expr>>
      [] node.k = "ArrayAccess" -> <<node.object, node.index>>
      [] node.k = "FieldAccess" -> <<node.object>>
      [] node.k \in {"FuncCall", "MethodCall"} -> <<node.object>> \o node.args
      [] node.k = "New" -> node.args
      [] node.k = "Array" -> node.elements
      [] node.k = "Export" -> <<node.defaultValue, node.varDeclNode>>
      [] OTHER -> <<>>

\* a node and the nodes below it, and the same for a list of nodes
RECURSIVE NodesOf(_)
RECURSIVE NodesOfAll(_)
NodesOf(node) == <<node>> \o NodesOfAll(Children(node))
NodesOfAll(nodes) ==
    IF Len(nodes) = 0 THEN <<>>
    ELSE NodesOf(Head(nodes)) \o NodesOfAll(Tail(nodes))

\* what the host keeps of a call of rule: how it ended, the nodes returned
\* or the error thrown, and the parser it leaves
Outcome(rule, r) == [rule |-> rule, k |-> r.k, v |-> r.v, ps |-> r.ps]

InitParse ==
    /\ RuntimeIdle
    /\ BundlerIdle
    /\ LexerIdle
    /\ \E i \in 1..Len(ProgramTexts) : program = ProgramTexts[i]
    /\ parsed = <<>>
    /\ emitted = <<>>
    /\ reparsed = <<>>
    /\ ran = <<>>
    /\ reran = <<>>

\* new Parser(program).parse()
Parse ==
    /\ parsed = <<>>
    /\ parsed' = Outcome("parse", parse(NewParser(program)))
    /\ UNCHANGED <<program, emitted, reparsed, ran, reran, evalVars, bundleVars, lexVars>>

\* new Parser(program).parseExpression()
ParseExpression ==
    /\ parsed = <<>>
    /\ parsed' = Outcome("parseExpression", parseExpression(NewParser(program)))
    /\ UNCHANGED <<program, emitted, reparsed, ran, reran, evalVars, bundleVars, lexVars>>

\* statementListToSource(nodes) of the nodes that parse() returned
ToSource ==
    /\ parsed # <<>>
    /\ parsed.rule = "parse"
    /\ parsed.k = "normal"
    /\ emitted = <<>>
    /\ emitted' = statementListToSource(parsed.v)
    /\ UNCHANGED <<program, parsed, reparsed, ran, reran, evalVars, bundleVars, lexVars>>

\* new Parser(emitted).parse()
Reparse ==
    /\ emitted # <<>>
    /\ emitted.k = "normal"
    /\ reparsed = <<>>
    /\ reparsed' = Outcome("parse", parse(NewParser(emitted.v)))
    /\ UNCHANGED <<program, parsed, emitted, ran, reran, evalVars, bundleVars, lexVars>>

\* a Runtime after setArgs({scope: {}, global})
NewRuntime(g) ==
    [scope |-> <<1>>, heap |-> <<EmptyFrame>>, stack |-> <<>>, closures |-> <<>>,
     global |-> g, log |-> <<>>]

\* evaluate(input, runtime), the loop over the nodes
RECURSIVE evaluateNodes(_, _, _)
evaluateNodes(nodes, i, rt) ==
    IF i > Len(nodes) THEN Normal(rt, Undef)
    ELSE With(evaluateNode(nodes[i], rt), LAMBDA r :
            IF r.k = "throw" THEN r ELSE evaluateNodes(nodes, i + 1, r.rt))

\* evaluate(input, runtime), as its caller sees it end once the loop over the
\* nodes ended with r: the catch around the loop passes whatever the loop
\* threw to console.log and evaluate returns undefined
evaluateCompletion(r) == [k |-> "normal", v |-> Undef]

\* what the host keeps of evaluate(input, runtime): the global object of the
\* runtime, how the loop ended: k = "throw" with the exception that the
\* catch of evaluate logs (the ReturnValueException of a top-level return
\* too), or k = "normal"; the events of the evaluation; and how evaluate
\* ended for its caller
Evaluated(g, r) ==
    [global |-> g, k |-> r.k, v |-> r.v, log |-> r.rt.log,
     surfaced |-> evaluateCompletion(r)]

\* the nodes that evaluate is run on: those without imports and exports,
\* which only the Bundler handles
Runnable(nodes) ==
    \A i \in 1..Len(NodesOfAll(nodes)) :
        NodesOfAll(nodes)[i].k \notin {"Import", "Export"}

\* evaluate(program, runtime), after its parse
Run ==
    /\ parsed # <<>>
    /\ parsed.rule = "parse"
    /\ parsed.k = "normal"
    /\ Runnable(parsed.v)
    /\ ran = <<>>
    /\ \E g \in Globals : ran' = Evaluated(g, evaluateNodes(parsed.v, 1, NewRuntime(g)))
    /\ UNCHANGED <<program, parsed, emitted, reparsed, reran, evalVars, bundleVars, lexVars>>

\* evaluate(emitted, runtime) on a Runtime like that of Run, after its parse
Rerun ==
    /\ ran # <<>>
    /\ reparsed # <<>>
    /\ reparsed.k = "normal"
    /\ Runnable(reparsed.v)
    /\ reran = <<>>
    /\ reran' = Evaluated(ran.global,
                          evaluateNodes(reparsed.v, 1, NewRuntime(ran.global)))
    /\ UNCHANGED <<program, parsed, emitted, reparsed, ran, evalVars, bundleVars, lexVars>>

NextParse ==
    \/ Parse
    \/ ParseExpression
    \/ ToSource
    \/ Reparse
    \/ Run
    \/ Rerun

SpecParse == InitParse /\ [][NextParse]_vars

(***************************************************************************)
(* Properties of the Runtime and the evaluator (SpecEval).                 *)
(***************************************************************************)
\* C1: an evaluation that finishes without an exception escaping it, also
\* one that caught an exception by a try/catch, leaves the scope stack and
\* the closure stack at the depths they had before it.
EvaluationRestoresDepths ==
    (last.op = "evaluate" /\ last.k = "normal")
        => (Len(scope) = last.sd /\ Len(stack) = last.cd)

\* C2: every function call that exits -- by normal completion, by a return
\* or by an exception out of its body or its parameter defaults -- leaves
\* the scope stack and the closure stack at their depths before the call.
CallExitRestoresDepths ==
    \A i \in 1..Len(last.log) :
        last.log[i].ev \in {"callReturn", "callThrow"}
            => (last.log[i].d[3] = last.log[i].d[1] /\ last.log[i].d[4] = last.log[i].d[2])

\* C3: a call of a closure returns (or throws) the same whatever the
\* caller's scope frames bind: the same as from a caller that binds nothing.
CalleeSeesNoCallerBinding ==
    \A i \in 1..Len(last.log) :
        last.log[i].ev \in {"callReturn", "callThrow"}
            => <<last.log[i].ev, last.log[i].v>> = last.log[i].alt

\* C4: a catch block is never run for the return signal, so it is never
\* handed a ReturnValueException as its caught value.
CatchNeverGetsReturnSignal ==
    \A i \in 1..Len(last.log) :
        last.log[i].ev = "catch" => ~IsReturnValueException(last.log[i].v)

\* the stack positions whose frame defines name, whatever its value
BoundAt(name) == {i \in 1..Len(scope) : name \in DOMAIN heap[scope[i]]}

\* C5: Load(name) is the value of name in the topmost frame that defines it,
\* also when that value is undefined; with no such frame it is global[name]
\* when that is truthy, else undefined.
LoadReturnsTopmostBinding ==
    last.op = "getLocal" =>
        last.v = IF BoundAt(last.name) # {}
                 THEN heap[scope[Max(BoundAt(last.name))]][last.name]
                 ELSE IF last.name \in DOMAIN global /\ Truthy(global[last.name])
                      THEN global[last.name]
                      ELSE Undef

\* C6: after a VarDecl, with or without an initializer, the declared name is
\* bound in the innermost scope frame.
VarDeclBindsInnermostFrame ==
    (last.op = "evaluate" /\ last.k = "normal" /\ Programs[last.arg].k = "VarDecl")
        => Programs[last.arg].variableNode.left \in DOMAIN heap[scope[Len(scope)]]

\* C7: setLocal(name, value) changes exactly the binding of name in the
\* innermost frame that already has it and nothing else; with no such frame
\* nothing changes at all.  It never raises an error.
SetLocalStep ==
    /\ last'.op = "setLocal" /\ ops' = ops + 1
    /\ last'.k = "normal"
    /\ scope' = scope /\ stack' = stack /\ closures' = closures /\ global' = global
    /\ DOMAIN heap' = DOMAIN heap
    /\ LET name == last'.name
           has == {i \in 1..Len(scope) : name \in DOMAIN heap[scope[i]]}
       IN IF has = {} THEN heap' = heap
          ELSE \E i \in has :
                /\ \A j \in has : j <= i
                /\ heap'[scope[i]] = Bind(heap[scope[i]], name, last'.v)
                /\ DOMAIN heap'[scope[i]] = DOMAIN heap[scope[i]]
                /\ \A g \in DOMAIN heap : g # scope[i] => heap'[g] = heap[g]

EachModuleEmittedOnce ==
    status = "resolved" =>
        /\ \A i, j \in 1..Len(bundled.modules) :
                bundled.modules[i] = bundled.modules[j] => i = j
        /\ \A f \in Reachable : \E i \in 1..Len(bundled.modules) : bundled.modules[i] = f

\* C9: bundle() of a graph with an import cycle eventually settles.
BundleOfCycleSettles ==
    (status = "running" /\ HasCycle /\ ~HasBareImport) ~> Settled

\* C10: bundle() of a finite acyclic graph eventually settles, whichever
\* import forms its modules use.
BundleOfAcyclicGraphSettles ==
    (status = "running" /\ ~HasCycle) ~> Settled

\* the keys of the emitted module table
ModuleKeys == {bundled.modules[i] : i \in 1..Len(bundled.modules)}

\* C11: in an emitted bundle the entry name of the top-level require call is
\* a key of the module table, and so is the name of every __eco_require__
\* emitted for an import.
EmittedNamesAreModuleKeys ==
    status = "resolved" =>
        /\ bundled.entryName \in ModuleKeys
        /\ \A i \in 1..Len(files) : \A j \in 1..Len(files[i].content) :
                (files[i].content[j].req # <<>> /\ files[i].content[j].req[1] = "req")
                    => files[i].content[j].req[2] \in ModuleKeys

(***************************************************************************)
(* Properties of the Lexer (SpecLex).                                      *)
(***************************************************************************)
\* the position of the first character at or after p that is no whitespace
RECURSIVE SkipWhite(_, _)
SkipWhite(input, p) ==
    IF p < Len(input) /\ isWhite(input[p + 1]) THEN SkipWhite(input, p + 1) ELSE p

\* the position after the run of characters other than whitespace that
\* begins at p
RECURSIVE WordEnd(_, _)
WordEnd(input, p) ==
    IF p < Len(input) /\ ~isWhite(input[p + 1]) THEN WordEnd(input, p + 1) ELSE p

\* the word a scan from position p meets first, and where it begins
WordStart(p) == SkipWhite(lexer.input, p)
WordFrom(p) == SubSeq(lexer.input, WordStart(p) + 1, WordEnd(lexer.input, WordStart(p)))

\* the call the host made last scanned, from whitespace, a word that is an
\* operator lexeme
ScannedOperatorLexeme ==
    /\ lexLast.cur.op \in {"peek", "consume"}
    /\ lexLast.cur.type = ""
    /\ lexLast.cur.from >= 0
    /\ WordStart(lexLast.cur.from) > lexLast.cur.from
    /\ \E i \in 1..Len(operators) : operators[i] = WordFrom(lexLast.cur.from)

\* C12: every operator lexeme that stands in the input between whitespace is
\* returned as one token of kind operator whose value is the lexeme, and the
\* scan ends right after the lexeme (longest match).
OperatorLexemeIsOneToken ==
    ScannedOperatorLexeme =>
        /\ lexLast.cur.k = "normal"
        /\ lexLast.cur.token =
              Token("operator", Str(Join(WordFrom(lexLast.cur.from))),
                    WordStart(lexLast.cur.from))
        /\ lexer.currentPosition =
              WordStart(lexLast.cur.from) + Len(WordFrom(lexLast.cur.from))

\* the tokens a Lexer constructed anew over the same input returns one
\* after the other, and whether the scan got to the end of the input
RECURSIVE TokenStream(_, _)
TokenStream(lx, acc) ==
    With(next(lx), LAMBDA r :
        IF r.k = "throw" THEN [tokens |-> acc, ended |-> FALSE]
        ELSE IF r.v = NoToken THEN [tokens |-> acc, ended |-> TRUE]
        ELSE TokenStream(r.lx, Append(acc, r.v)))

\* what follows the token t in the input: the next token, nothing (the
\* end of the input) or a scan that fails.  A token the Lexer returned after
\* a scan that failed may begin inside a word and be no token of the input;
\* what follows it is what a scan from its end (the position `from` the
\* next scan started at) returns.
Following(t, from) ==
    With(TokenStream(revert(lexer, 0), <<>>), LAMBDA s :
        LET later == {i \in 1..Len(s.tokens) : s.tokens[i].position > t.position}
        IN IF \E i \in 1..Len(s.tokens) : s.tokens[i] = t
           THEN IF later # {}
                THEN [k |-> "normal",
                      token |-> s.tokens[CHOOSE i \in later : \A j \in later : i <= j]]
                ELSE [k |-> IF s.ended THEN "normal" ELSE "throw", token |-> NoToken]
           ELSE With(next(revert(lexer, from)), LAMBDA r :
                    [k |-> r.k, token |-> IF r.k = "normal" THEN r.v ELSE NoToken]))

\* C13: peek consumes nothing and consume takes exactly the peeked token:
\* after a peek that returned a token t, another peek returns t and
\* consume(t.type) returns t without failing; after a consume that returned t
\* the next peek returns the token that follows t in the input (nothing at
\* the end of the input), never t again.
PeekKeepsConsumeTakes ==
    /\ ( /\ lexLast.prev.op = "peek" /\ lexLast.prev.token # NoToken
         /\ lexLast.cur.op = "peek"
         /\ lexLast.cur.type \in {"", lexLast.prev.token.type} )
       => (lexLast.cur.k = "normal" /\ lexLast.cur.token = lexLast.prev.token)
    /\ ( /\ lexLast.prev.op = "peek" /\ lexLast.prev.token # NoToken
         /\ lexLast.cur.op = "consume"
         /\ lexLast.cur.type = lexLast.prev.token.type )
       => (lexLast.cur.k = "normal" /\ lexLast.cur.token = lexLast.prev.token)
    /\ ( /\ lexLast.prev.op = "consume" /\ lexLast.prev.token # NoToken
         /\ lexLast.cur.op = "peek" /\ lexLast.cur.type = "" )
       => /\ lexLast.cur.token # lexLast.prev.token
          /\ lexLast.cur.k = Following(lexLast.prev.token, lexLast.cur.from).k
          /\ lexLast.cur.token = Following(lexLast.prev.token, lexLast.cur.from).token

\* a peeked token was consumed by its kind and the peek after it returned
\* another token
PeekedAfterConsumingPeeked ==
    /\ lexLast.prev.op = "consume" /\ lexLast.prev.from = -1
    /\ lexLast.prev.type # "" /\ lexLast.prev.token # NoToken
    /\ lexLast.cur.op = "peek" /\ lexLast.cur.type = ""
    /\ lexLast.cur.token # NoToken
    /\ lexLast.cur.token = Following(lexLast.prev.token, 0).token

\* the positions before p that hold a newline
NewlinesBefore(p) == {i \in 0..(p - 1) : lexer.input[i + 1] = "\n"}

\* the position after the last newline before p, 0 without one
LineStart(p) ==
    IF NewlinesBefore(p) = {} THEN 0
    ELSE 1 + CHOOSE i \in NewlinesBefore(p) : \A j \in NewlinesBefore(p) : j <= i

\* C14: getLineAndColumnFromPosition(P) answers a line that is at least 1
\* and is 1 plus the number of newlines before P, and a column that is 1
\* plus the number of characters between the last newline before P (or the
\* start of the input) and P.
LineAndColumnCountNewlines ==
    lexLast.cur.op = "getLineAndColumn" =>
        /\ lexLast.cur.line >= 1
        /\ lexLast.cur.line = 1 + Cardinality(NewlinesBefore(lexLast.cur.position))
        /\ lexLast.cur.column = 1 + lexLast.cur.position - LineStart(lexLast.cur.position)

\* the host asked for a position on a later line, past the line's start
AskedPositionOnLaterLine ==
    /\ lexLast.cur.op = "getLineAndColumn"
    /\ Cardinality(NewlinesBefore(lexLast.cur.position)) >= 2
    /\ lexLast.cur.position > LineStart(lexLast.cur.position)
    /\ lexLast.cur.line >= 3
    /\ lexLast.cur.column >= 2

(***************************************************************************)
(* Properties of the Parser (SpecParse).                                   *)
(***************************************************************************)
\* the parser returned: the nodes of what it returned
HasParsed == parsed # <<>> /\ parsed.k = "normal"
ParsedNodes ==
    IF parsed.rule = "parse" THEN NodesOfAll(parsed.v) ELSE NodesOf(parsed.v)

\* the precedence level that reads a binary operator, the loosest first
LevelOf(opType) ==
    CASE opType \in {"&&", "||"} -> 1
      [] opType \in {"===", "==", "!==", "!=", ">=", "<=", ">", "<"} -> 2
      [] opType \in {"+", "-"} -> 3
      [] opType \in {"*", "/"} -> 4

\* an operand of a binary node that is a binary node of a looser or the same
\* level
ChainsAtLevel(node, operand) ==
    /\ node.k = "BinaryOp"
    /\ operand.k = "BinaryOp"
    /\ LevelOf(operand.opType) <= LevelOf(node.opType)

\* C15: binary operators do not chain at one precedence level.  No operand
\* of a BinaryOp node that the parser returns is a BinaryOp of the same
\* level; parseExpression over `a + b + c` returns Binary(a, +, b) and leaves
\* the second `+` unconsumed, and parse over `a + b + c;` fails where the
\* `;` is missing, at the second `+`.
BinaryOperatorsDoNotChain ==
    /\ HasParsed =>
          \A i \in 1..Len(ParsedNodes) :
              /\ ~ChainsAtLevel(ParsedNodes[i], ParsedNodes[i].left)
              /\ ~ChainsAtLevel(ParsedNodes[i], ParsedNodes[i].right)
    /\ (parsed # <<>> /\ program = APlusBPlusC /\ parsed.rule = "parseExpression") =>
          /\ parsed.k = "normal"
          /\ parsed.v = BinaryOpNode(LoadNode("a"), "+", LoadNode("b"))
          /\ parsed.ps.lexer.lastPeekedToken = Token("operator", Str("+"), 6)
    /\ (parsed # <<>> /\ program = APlusBPlusCStatement /\ parsed.rule = "parse") =>
          /\ parsed.k = "throw"
          /\ parsed.v = ParserError(6, "Expected")

\* parseExpression returned from `a + b + c` with its second `+` peeked and
\* not consumed
SecondPlusLeftUnconsumed ==
    /\ HasParsed
    /\ program = APlusBPlusC
    /\ parsed.rule = "parseExpression"
    /\ parsed.ps.lexer.lastPeekedToken.position = 6

\* C16: assignment is right-associative: parseExpression over `a = b = c`
\* returns Assignment(a, =, Assignment(b, =, c)), and parse over `a = b = c;`
\* returns that node as its one statement.
AssignmentIsRightAssociative ==
    /\ (parsed # <<>> /\ program = AIsBIsC /\ parsed.rule = "parseExpression") =>
          /\ parsed.k = "normal"
          /\ parsed.v = AssignmentNode(LoadNode("a"), "=",
                            AssignmentNode(LoadNode("b"), "=", LoadNode("c")))
    /\ (parsed # <<>> /\ program = AIsBIsCStatement /\ parsed.rule = "parse") =>
          /\ parsed.k = "normal"
          /\ parsed.v[1] = AssignmentNode(LoadNode("a"), "=",
                               AssignmentNode(LoadNode("b"), "=", LoadNode("c")))

\* the number of nodes of a list that are Import or Export nodes
RECURSIVE ImportsAndExportsIn(_)
ImportsAndExportsIn(nodes) ==
    IF Len(nodes) = 0 THEN 0
    ELSE (IF Head(nodes).k \in {"Import", "Export"} THEN 1 ELSE 0)
         + ImportsAndExportsIn(Tail(nodes))

\* the programs of ProgramTexts with an import or an export that is not a
\* top-level statement
NestedImportOrExport ==
    {ImportInIf, ImportInBlock, ImportInFunction, ExportInWhile, ExportInElse}

\* C17: an import or export that is not a top-level statement is rejected
\* with a parse error, so every Import or Export node of a successfully
\* parsed program is an element of the top-level statement list.
NestedImportExportRejected ==
    (parsed # <<>> /\ parsed.rule = "parse") =>
        /\ program \in NestedImportOrExport => parsed.k = "throw"
        /\ parsed.k = "normal" =>
              ImportsAndExportsIn(NodesOfAll(parsed.v)) = ImportsAndExportsIn(parsed.v)

\* the programs of ProgramTexts that the round trip is claimed for: a throw,
\* an if and a while with an expression statement as body, an array
\* destructuring with a hole, string literals, and blocks, functions and
\* calls besides
RoundTripPrograms ==
    {ThrowThenAssign, IfExpression, WhileExpression, DestructureHole,
     DoubleQuoted, SingleQuoted, IfBlock, TwoParameters, TernaryBody}

\* C18: the source round trip.  Of a program that parses, the source of the
\* nodes is emitted, the emitted text parses again, and the nodes of the
\* second parse evaluate as those of the first on a runtime like the
\* first's: they end the same way with the same value.
SourceRoundTrips ==
    program \in RoundTripPrograms =>
        /\ emitted # <<>> => emitted.k = "normal"
        /\ reparsed # <<>> => reparsed.k = "normal"
        /\ reran # <<>> => (reran.k = ran.k /\ reran.v = ran.v)

\* C19: evaluating `const [a, , ...b] = [1,2,3,4]; return a + b.length;`
\* returns 3: the top-level return ends the evaluation with the return
\* signal carrying 3, a being 1 and b the two values [3, 4] from the index
\* of the rest element on.
DestructureHoleReturns3 ==
    (ran # <<>> /\ program = DestructureHole) =>
        /\ ran.k = "throw"
        /\ ran.v = ReturnValueException(Num(3))

\* the destructuring program was evaluated and ended with a return
DestructureHoleReturned ==
    /\ ran # <<>>
    /\ program = DestructureHole
    /\ parsed.v[1].variableNode.left[2] = Hole
    /\ parsed.v[1].variableNode.left[3].isRest
    /\ ran.k = "throw"
    /\ IsReturnValueException(ran.v)

\* C19 as stated: the same evaluation returns 4.
DestructureHoleReturns4 ==
    (ran # <<>> /\ program = DestructureHole) =>
        /\ ran.k = "throw"
        /\ ran.v = ReturnValueException(Num(4))

\* C20: `const g = n => n <= 1 ? 1 : n * g(n - 1); return g(5);` lexes and
\* parses, and its evaluation returns 120.
FactorialReturns120 ==
    program = Factorial =>
        /\ (parsed # <<>> /\ parsed.rule = "parse") => parsed.k = "normal"
        /\ ran # <<>> => (ran.k = "throw" /\ ran.v = ReturnValueException(Num(120)))

\* the try statements that are entered and not yet left after event i of a log
OpenTries(log, i) ==
    Cardinality({t \in 1..i : log[t].ev = "try"})
    - Cardinality({t \in 1..i : log[t].ev = "tryEnd"})

\* event j is the exit of the try statement entered at event s
IsTryEndOf(log, s, j) ==
    /\ j > s /\ log[j].ev = "tryEnd"
    /\ OpenTries(log, j) = OpenTries(log, s) - 1
    /\ \A t \in (s + 1)..(j - 1) :
            ~(log[t].ev = "tryEnd" /\ OpenTries(log, t) = OpenTries(log, s) - 1)

\* the events of kind ev of the try statement entered at event s itself, not
\* of a try statement nested in it
OwnEvents(log, s, ev) ==
    {i \in (s + 1)..Len(log) :
        /\ log[i].ev = ev
        /\ OpenTries(log, i) = OpenTries(log, s)
        /\ \E j \in (i + 1)..Len(log) : IsTryEndOf(log, s, j)}

\* the evaluations of a program and of its emitted source that have been done
EachRun(P(_)) == (ran # <<>> => P(ran)) /\ (reran # <<>> => P(reran))

\* a run returned value v: the loop of evaluate ended with the return signal
RunReturned(run, v) == run.k = "throw" /\ run.v[1] = "rve" /\ run.v[2] = v

\* C21: a try statement with a finally block evaluates the block exactly once
\* on every exit path, after the try block and after the catch block if it
\* ran: after normal completion, after a caught exception, when the catch
\* block throws and when it returns.  The program with 'oops' returns 'oops!'.
FinallyRunsOnceOnEveryExit ==
    /\ EachRun(LAMBDA run : \A s \in 1..Len(run.log) :
            (run.log[s].ev = "try" /\ run.log[s].c = 1) =>
                /\ \E j \in 1..Len(run.log) : IsTryEndOf(run.log, s, j)
                /\ Cardinality(OwnEvents(run.log, s, "finally")) = 1
                /\ \A c \in OwnEvents(run.log, s, "catch") :
                        \A f \in OwnEvents(run.log, s, "finally") : c < f)
    /\ (program = OopsFinally /\ ran # <<>>) => RunReturned(ran, Str("oops!"))
    /\ (program = FinallyAfterTry /\ ran # <<>>) => RunReturned(ran, Num(3))
    /\ (program = FinallyAfterReturn /\ ran # <<>>) => RunReturned(ran, Num(3))
    /\ (program = FinallyAfterCatchReturns /\ ran # <<>>) => RunReturned(ran, Num(1))
    /\ (program = FinallyAfterCatchThrows /\ ran # <<>>) =>
            (ran.k = "throw" /\ ran.v = Num(3))

\* the program with 'oops' has returned 'oops!', its finally block evaluated
\* after its catch block
OopsFinallyReturned ==
    /\ program = OopsFinally /\ ran # <<>>
    /\ RunReturned(ran, Str("oops!"))
    /\ \E c, f \in 1..Len(ran.log) :
            c < f /\ ran.log[c].ev = "catch" /\ ran.log[f].ev = "finally"

\* the values a user throw statement of the programs throws
UserThrown(run) ==
    run.k = "throw" /\ run.v[1] \in {"num", "str"}

\* C22: a value thrown by a user throw that no try/catch of the program
\* catches passes unchanged through the enclosing blocks and function calls
\* and is surfaced to the caller of evaluate(input, runtime): evaluate ends by
\* throwing that value.
UncaughtThrowSurfaced ==
    EachRun(LAMBDA run :
        /\ (program = UncaughtThrow) => (run.k = "throw" /\ run.v = Num(7))
        /\ UserThrown(run) => run.surfaced = [k |-> "throw", v |-> run.v])

\* the exits, in the log of the last operation, of calls of a function that
\* returns from nested statements
NestedReturnExits ==
    {i \in 1..Len(last.log) :
        /\ last.log[i].ev \in {"callReturn", "callThrow"}
        /\ closures[last.log[i].c].funcExpr \in {NestedReturn, NestedBareReturn}}

\* C23: a return inside nested blocks, if and while statements of a function
\* body ends the call at once: no later statement of the body is evaluated
\* (none of its throw statements), every block has popped its frame (the
\* stack depths after the call are those before it), the call has the payload
\* as its result, undefined for a bare return, and the caller goes on: the
\* statement `y = f();` completes.
ReturnUnwindsToTheCall ==
    /\ \A i \in NestedReturnExits :
            /\ last.log[i].ev = "callReturn"
            /\ last.log[i].v =
                    IF closures[last.log[i].c].funcExpr = NestedReturn
                    THEN Num(5) ELSE Undef
            /\ last.log[i].d[3] = last.log[i].d[1]
            /\ last.log[i].d[4] = last.log[i].d[2]
    /\ (NestedReturnExits # {} /\ last.op \in {"evaluate", "call"}) =>
            /\ last.k = "normal"
            /\ Len(scope) = last.sd
            /\ Len(stack) = last.cd

\* the statement `y = f();` has completed after a call of the function that
\* returns 5 from its while, if and block
NestedReturnReturned ==
    /\ last.op = "evaluate" /\ last.arg = 14 /\ last.k = "normal"
    /\ \E i \in NestedReturnExits :
            /\ closures[last.log[i].c].funcExpr = NestedReturn
            /\ last.log[i].v = Num(5)

\* C24: a closure reads, for every name bound when its Function node was
\* evaluated, the value the name had then (the merge of the frames, inner over
\* outer), whatever is assigned to the name in the defining scope afterwards:
\* the closure created with x = 1 returns 1 after `x = 2`, the one created in
\* a block with x = 3 over an outer x = 1 returns 3 after `x = 4`, and the one
\* created with x = undefined returns undefined after `x = 2`.
ClosureReadsItsSnapshot ==
    EachRun(LAMBDA run :
        /\ program = ClosureSnapshot => RunReturned(run, Num(1))
        /\ program = ClosureSnapshotInner => RunReturned(run, Num(3))
        /\ program = ClosureSnapshotUndefined => RunReturned(run, Undef))

(***************************************************************************)
(* Properties of the exports of a module (SpecBundle).                     *)
(***************************************************************************)
\* the statements of a module that record a default export: export default,
\* and export * from
RecordsDefault(n) == n.k = "ExportDefault" \/ (n.k = "ExportFrom" /\ n.allExports)

\* the named exports that the statements of a module record, in source order
RECURSIVE NamedExportsOf(_)
NamedExportsOf(nodes) ==
    IF nodes = <<>> THEN <<>>
    ELSE (CASE Head(nodes).k = "ExportVarDecl" ->
                    [i \in 1..Len(Head(nodes).varNames) |->
                        Named(Head(nodes).varNames[i], "")]
            [] Head(nodes).k = "ExportFrom" /\ ~Head(nodes).allExports ->
                    Head(nodes).objects
            [] OTHER -> <<>>)
         \o NamedExportsOf(Tail(nodes))

IsModuleExports(piece) ==
    piece.t \in {"module.exports=default", "module.exports=named"}

\* C25: every emitted module body has at most one `module.exports = ...;`,
\* as its last statement: none when the module's own source records no
\* export, the default one when the source records a default export (or
\* export * from), named exports or not, and otherwise one object with every
\* named export of the module's own source, in source order.
ExportsAggregatedPerModule ==
    \A i \in 1..Len(files) :
        LET body == files[i].content
            nodes == fs[files[i].name]
            named == NamedExportsOf(nodes)
        IN /\ \A j \in 1..Len(body) : IsModuleExports(body[j]) => j = Len(body)
           /\ IF \E j \in 1..Len(nodes) : RecordsDefault(nodes[j])
              THEN /\ body # <<>>
                   /\ body[Len(body)].t = "module.exports=default"
              ELSE IF named # <<>>
              THEN /\ body # <<>>
                   /\ body[Len(body)].t = "module.exports=named"
                   /\ body[Len(body)].names = named
              ELSE \A j \in 1..Len(body) : ~IsModuleExports(body[j])

\* a module with a default export and a named export has been emitted, and
\* one with two named exports
ModulesWithExportsEmitted ==
    /\ \E i \in 1..Len(files) :
            /\ \E j \in 1..Len(fs[files[i].name]) : RecordsDefault(fs[files[i].name][j])
            /\ NamedExportsOf(fs[files[i].name]) # <<>>
            /\ files[i].content[Len(files[i].content)].t = "module.exports=default"
    /\ \E i \in 1..Len(files) :
            /\ Len(NamedExportsOf(fs[files[i].name])) = 2
            /\ files[i].content[Len(files[i].content)].t = "module.exports=named"

\* C26: a block pops the frame it pushed on every exit path, so that a
\* binding declared in a block is not visible after the block, however the
\* block exited: after `{ let z = 5; }` and after the try block
\* `{ let z = 5; throw 1; }`, whose throw is caught, `return z;` returns
\* undefined.
BlockBindingsEndWithTheBlock ==
    EachRun(LAMBDA run :
        program \in {BlockCompletes, BlockThrows} => RunReturned(run, Undef))

(***************************************************************************)
(* Properties of the tokens of names and of strings (SpecLex).             *)
(***************************************************************************)
\* the words that are letters and digits after a first letter
IsNameLexeme(word) ==
    /\ word # <<>>
    /\ isAlpha(word[1])
    /\ \A i \in 1..Len(word) : isAlpha(word[i]) \/ isDigit(word[i])

\* the call the host made last scanned a word that is a name and neither a
\* keyword nor true, false, null or undefined
ScannedNameLexeme ==
    /\ lexLast.cur.op \in {"peek", "consume"}
    /\ lexLast.cur.type = ""
    /\ lexLast.cur.from >= 0
    /\ IsNameLexeme(WordFrom(lexLast.cur.from))
    /\ Join(WordFrom(lexLast.cur.from)) \notin
            keywords \cup {"true", "false", "null", "undefined"}

\* C27: every lexeme of letters, digits and _ after a first letter or _ that
\* is neither a keyword nor true, false, null or undefined is returned as a
\* token of kind identifier whose value is the lexeme; toString, constructor
\* and valueOf are such lexemes.
NameLexemeIsIdentifier ==
    ScannedNameLexeme =>
        /\ lexLast.cur.k = "normal"
        /\ lexLast.cur.token =
              Token("identifier", Str(Join(WordFrom(lexLast.cur.from))),
                    WordStart(lexLast.cur.from))

\* the 1-based index of the first character q of the input after index p, or
\* 0 when there is none
ClosingQuote(input, p, q) ==
    IF \E c \in (p + 1)..Len(input) : input[c] = q
    THEN CHOOSE c \in (p + 1)..Len(input) :
            input[c] = q /\ \A b \in (p + 1)..(c - 1) : input[b] # q
    ELSE 0

\* the call the host made last scanned a string literal: a quote and, later
\* in the input, the same quote
ScannedStringLiteral ==
    /\ lexLast.cur.op \in {"peek", "consume"}
    /\ lexLast.cur.type = ""
    /\ lexLast.cur.from >= 0
    /\ WordStart(lexLast.cur.from) < Len(lexer.input)
    /\ lexer.input[WordStart(lexLast.cur.from) + 1] \in {"'", "\""}
    /\ ClosingQuote(lexer.input, WordStart(lexLast.cur.from) + 1,
                    lexer.input[WordStart(lexLast.cur.from) + 1]) > 0

\* C28: a string literal ends only at the quote character that opened it and
\* the value of its token is the characters between the two quotes,
\* whitespace and the other quote character included.
StringEndsAtItsOwnQuote ==
    ScannedStringLiteral =>
        LET open == WordStart(lexLast.cur.from) + 1
            close == ClosingQuote(lexer.input, open, lexer.input[open])
        IN /\ lexLast.cur.k = "normal"
           /\ lexLast.cur.token =
                Token("string", Str(Join(SubSeq(lexer.input, open + 1, close - 1))),
                      open - 1)
           /\ lexer.currentPosition = close

(***************************************************************************)
(* Properties of the backtracking of parsePrimary (SpecParse).             *)
(***************************************************************************)
\* the parses that have been done: of the program and of its emitted source
EachParse(P(_)) == (parsed # <<>> => P(parsed)) /\ (reparsed # <<>> => P(reparsed))

\* a Lexer constructed anew over the input of lexer lx (new Lexer appends the
\* blank that lx.input ends with) and positioned at position
FreshLexerAt(lx, position) ==
    revert(NewLexer(SubSeq(lx.input, 1, Len(lx.input) - 1)), position)

\* how a function parse ends: whether it returned or threw, its node or its
\* error, and where it left the lexer
FunctionParse(ps) ==
    With(parseFunction(ps), LAMBDA r :
        <<r.k, r.v, r.ps.lexer.currentPosition, r.ps.lexer.lastPeekedToken>>)

\* C29: whenever parsePrimary gives up the primary for a function (the
\* primary failed, or '=>' follows it), the function parse starts at the
\* position the scan of the primary's first token began at (only whitespace
\* lies between it and the token) and without a peeked token, and it ends as
\* the function parse of a parser with a new Lexer positioned there.
BacktrackStartsAfresh ==
    EachParse(LAMBDA p : \A i \in 1..Len(p.ps.backtracks) :
        LET b == p.ps.backtracks[i]
        IN /\ b.lexer.currentPosition = b.position
           /\ b.lexer.lastPeekedToken = NoToken
           /\ b.first # NoToken =>
                (/\ b.position <= b.first.position
                 /\ SkipWhite(b.lexer.input, b.position) = b.first.position)
           /\ FunctionParse([lexer |-> b.lexer, blockDepth |-> b.blockDepth,
                             backtracks |-> <<>>])
              = FunctionParse([lexer |-> FreshLexerAt(b.lexer, b.position),
                               blockDepth |-> b.enteredDepth,
                               backtracks |-> <<>>]))

\* the program with two arrow functions is parsed: the primary `(a, b)`
\* failed and '=>' followed the primary `x`, and both times a function was
\* parsed after tokens had been consumed or peeked
BacktrackedBothWays ==
    /\ program = NestedArrows
    /\ parsed # <<>> /\ parsed.k = "normal"
    /\ \E i, j \in 1..Len(parsed.ps.backtracks) :
            /\ parsed.ps.backtracks[i].failed
            /\ ~parsed.ps.backtracks[j].failed
            /\ parsed.ps.backtracks[i].first.position > 0
            /\ parsed.ps.backtracks[j].first.position > 0

\* C30: every call of a closure pushes the closure's one captured frame, not
\* a copy: `++x` in the body of f changes x in the captured frame of f only.
\* The second call of f sees the first call's change (it gives 3), the
\* closure g created from the same scope still reads 1, and x in the defining
\* scope is still 1: the program returns [3, 1, 1].
CapturedFrameIsShared ==
    EachRun(LAMBDA run :
        program = ClosureCounter =>
            RunReturned(run, Arr(<<Num(3), Num(1), Num(1)>>)))

\* the program with the counting closure has returned after its three calls
ClosureCounterReturned ==
    /\ program = ClosureCounter /\ ran # <<>>
    /\ RunReturned(ran, Arr(<<Num(3), Num(1), Num(1)>>))
    /\ Len(ran.log) = 3
    /\ ran.log[1].v = Num(2) /\ ran.log[2].v = Num(3) /\ ran.log[3].v = Num(1)

====
